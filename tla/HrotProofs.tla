----------------------------- MODULE HrotProofs -----------------------------
(***************************************************************************)
(* Proofs about Hrot for every value of its constants: any number of       *)
(* interrupts, commands, faults, corruptions and resets, any queue         *)
(* capacity.  The inductive invariant says that an event carries the       *)
(* objects its handler expects, that the INITIALIZE event meets nothing    *)
(* else, and that the BMC's event contexts name the BMC whenever a         *)
(* handler's end could depend on it.  A second one, LInv, counts the       *)
(* events that wait: each context holds at most three for every time an    *)
(* interrupt or a command armed it.                                        *)
(***************************************************************************)
EXTENDS Hrot, FiniteSetTheorems, TLAPS

\* The events the program posts, each with the objects its handler expects.
Matched ==
       [state : {"VERIFY", "RECOVERY"}, ao : {"Bmc"}, ev : {"Bmc0", "Bmc1"}]
  \cup [state : {"VERIFY", "RECOVERY"}, ao : {"Wdt"}, ev : {"Wdt"}]
  \cup [state : {"UPDATE"}, ao : {"Update"}, ev : {"Update"}]
  \cup [state : {"I2C"}, ao : {"I2c"}, ev : {"I2c"}]

\* From reset to the INITIALIZE event nothing runs and nothing interrupts.
Booting ==
  /\ evq = <<InitialEvent>>
  /\ cur = "IDLE" /\ pc = "run"
  /\ bmc = "held" /\ ~monitor /\ \A i \in Images : ~wdt[i]
  /\ ao["Bmc"].pnc = 0

\* Afterwards only matching events are queued, and the BMC's event contexts
\* name the BMC while the platform is provisioned or the BMC object is in use.
Running ==
  /\ evq \in Seq(Matched)
  /\ prov \/ monitor \/ ao["Bmc"].pnc = 1 =>
       ev["Bmc0"].image = "BMC" /\ ev["Bmc1"].image = "BMC"

\* Where the main thread is inside smf_run_state agrees with the state, and the
\* state's handler has matching objects.
Handling ==
  /\ cur = "IDLE" => pc = "run"
  /\ cur = "LOCKDOWN" => pc = "run" /\ ctx.ao # "NULL"
  /\ cur \notin {"IDLE", "LOCKDOWN"} =>
       [state |-> cur, ao |-> ctx.ao, ev |-> ctx.ev] \in Matched
  /\ pc = "auth" => cur = "VERIFY"
  /\ pc = "recover" => cur = "RECOVERY"
  /\ pc \in {"update", "publish"} => cur = "UPDATE"

\* An update that is to be made names its image.
UpdateNamed == ao["Update"].pnc = 1 => ev["Update"].image \in {"BMC", "PCH", "HROT"}

\* While update_firmware_image writes, both processors are held.
UpdateHoldsBoth == pc = "update" /\ res.writes # {} => bmc = "held" /\ pch = "held"

\* The inductive invariant.
IInv ==
  TypeOK /\ (Booting \/ Running) /\ Handling /\ UpdateNamed /\ Monitored /\ UpdateHoldsBoth

-----------------------------------------------------------------------------
(* Types of the flash operations                                           *)

\* Writing one region (Put) leaves a well-formed flash.
LEMMA PutType ==
  ASSUME NEW f \in Flash, NEW i \in Images, NEW r \in Regions, NEW c \in Content
  PROVE  Put(f, i, r, c) \in Flash
  BY DEF Put, Flash

\* An Outcome is an operation record, whatever it rewrites.
LEMMA OutcomeType ==
  ASSUME NEW st \in {"Success", "Failure", "VerifyActive", "VerifyRecovery"},
         NEW f, NEW g \in Flash, NEW w \in SUBSET (Images \X Regions), NEW b \in BOOLEAN
  PROVE  Outcome(st, f, g, w, b) \in Operation
  BY DEF Outcome, Operation

\* An operation that writes nothing is well-formed, rewrites nothing and has
\* no faulty write: what authentication_image and a skipped handler return.
LEMMA UntouchedType ==
  ASSUME NEW st \in {"Success", "Failure", "VerifyActive", "VerifyRecovery"}, NEW f \in Flash
  PROVE  /\ Untouched(st, f) \in Operation
         /\ Untouched(st, f).writes = {}
         /\ Untouched(st, f).status = st
         /\ Untouched(st, f).fault = FALSE
<1>1. Untouched(st, f) \in Operation
  BY OutcomeType DEF Untouched
<1>2. {w \in Images \X Regions : f[w[1]][w[2]] # f[w[1]][w[2]]} = {}
  OBVIOUS
<1> QED
  BY <1>1, <1>2 DEF Untouched, Outcome

\* Erasing before, and writing after, an operation keeps the flash well-formed.
LEMMA ErasedType ==
  ASSUME NEW f \in Flash, NEW o \in Operation
  PROVE  Erased(f, o) \in Flash /\ Written(f, o) \in Flash
  BY DEF Erased, Written, Flash, Operation, Content

\* pfr_staging_pch_staging yields flashes.
LEMMA StagingType ==
  ASSUME NEW f \in Flash, NEW i \in Images
  PROVE  pfr_staging_pch_staging(f, i) \subseteq Flash
<1>1. {"PCH", "BMC"} \subseteq Images /\ "staging" \in Regions /\ {"good", "bad"} \subseteq Content
  BY DEF Images, Regions, Content
<1>2. ASSUME NEW g \in Flash, NEW hit \in SUBSET Regions
      PROVE  [g EXCEPT !["BMC"] = [r \in Regions |-> IF r \in hit THEN "bad" ELSE @[r]]] \in Flash
  BY <1>1 DEF Flash
<1>3. \A c \in Content : Put(f, "PCH", "staging", c) \in Flash
  BY <1>1, PutType
<1> QED
  BY <1>1, <1>2, <1>3 DEF pfr_staging_pch_staging

\* hrot_update yields operations, none with a faulty flash write.
LEMMA HrotUpdateType ==
  ASSUME NEW f \in Flash
  PROVE  hrot_update(f) \subseteq {o \in Operation : ~o.fault}
<1>1. \A st \in Status : Untouched(st, f) \in Operation /\ Untouched(st, f).fault = FALSE
  BY UntouchedType DEF Status
<1>2. [Untouched("Success", f) EXCEPT !.clears = Flags, !.decommissions = TRUE] \in Operation
  BY <1>1 DEF Operation, Status
<1>3. ~[Untouched("Success", f) EXCEPT !.clears = Flags, !.decommissions = TRUE].fault
  BY <1>1 DEF Operation, Status
<1> QED
  BY <1>1, <1>2, <1>3 DEF hrot_update

\* update_firmware_image yields operations for either region of either image.
LEMMA UpdateImageType ==
  ASSUME NEW f \in Flash, NEW flags, NEW i \in Images, NEW r \in {"active", "recovery"}
  PROVE  update_firmware_image(f, flags, i, r) \subseteq Operation
  <1> DEFINE toPch == flags \cap {"BmcToPchStatus"}
             sources == IF toPch = {} THEN {f} ELSE pfr_staging_pch_staging(f, i)
             accepted(s) == /\ ufm /\ s[i]["staging"] = "good"
                            /\ (r = "active" => s[i]["recovery"] = "good")
             refused(s) == {Outcome(st, f, s, {}, FALSE) : st \in Status}
             done(s) == {Outcome("Success", f, Put(s, i, r, "good"), {<<i, r>>}, FALSE),
                         Outcome(IF r = "active" THEN "Success" ELSE "Failure", f,
                                 Put(s, i, r, "bad"), {<<i, r>>}, TRUE),
                         Outcome("Failure", f, Put(s, i, r, "bad"), {<<i, r>>}, TRUE)}
             ends == {Untouched("Failure", f)}
                     \cup (UNION {refused(s) : s \in sources})
                     \cup (UNION {done(s) : s \in {x \in sources : accepted(x)}})
  <1>1. sources \subseteq Flash
    BY StagingType
  <1>2. r \in Regions /\ "good" \in Content /\ "bad" \in Content
    BY DEF Regions, Content
  <1>3. ASSUME NEW s \in sources PROVE refused(s) \subseteq Operation /\ done(s) \subseteq Operation
    <2>1. s \in Flash /\ Put(s, i, r, "good") \in Flash /\ Put(s, i, r, "bad") \in Flash
      BY <1>1, <1>2, PutType
    <2>2. {<<i, r>>} \in SUBSET (Images \X Regions) /\ {} \in SUBSET (Images \X Regions)
      BY <1>2
    <2>3. \A st \in Status, b \in BOOLEAN :
            /\ Outcome(st, f, s, {}, b) \in Operation
            /\ Outcome(st, f, Put(s, i, r, "good"), {<<i, r>>}, b) \in Operation
            /\ Outcome(st, f, Put(s, i, r, "bad"), {<<i, r>>}, b) \in Operation
      BY <2>1, <2>2, OutcomeType DEF Status
    <2> QED BY <2>3 DEF Status
  <1>4. Untouched("Failure", f) \in Operation
    BY UntouchedType
  <1> HIDE DEF sources, accepted, refused, done
  <1>5. ends \subseteq Operation
    BY <1>3, <1>4
  <1>6. ASSUME NEW o \in Operation PROVE [o EXCEPT !.clears = toPch] \in Operation
    BY DEF Operation, Flags
  <1>7. update_firmware_image(f, flags, i, r) = {[o EXCEPT !.clears = toPch] : o \in ends}
    BY DEF update_firmware_image, sources, accepted, refused, done
  <1> HIDE DEF ends, toPch
  <1> QED BY <1>5, <1>6, <1>7

\* The sources recover_image restores a recovery region from are flashes.
LEMMA SourcesType ==
  ASSUME TypeOK, NEW d, NEW i \in Images
  PROVE  RecoverySources(d, i) \subseteq Flash
  BY StagingType DEF RecoverySources, TypeOK

\* recover_image yields operations for either image.
LEMMA RecoverImageType ==
  ASSUME TypeOK, NEW d, NEW i \in Images
  PROVE  recover_image(d, i) \subseteq Operation
<1>1. flash \in Flash /\ Untouched("Failure", flash) \in Operation
      /\ Untouched("Success", flash) \in Operation
  BY UntouchedType DEF TypeOK
<1>2. "recovery" \in Regions /\ "active" \in Regions /\ "good" \in Content /\ "bad" \in Content
  BY DEF Regions, Content
<1> DEFINE restored(s) == {Outcome("VerifyRecovery", flash, Put(s, i, "recovery", "good"),
                                   {<<i, "recovery">>}, FALSE),
                           Outcome("Failure", flash, Put(s, i, "recovery", "bad"),
                                   {<<i, "recovery">>}, TRUE)}
<1>3. ASSUME NEW s \in RecoverySources(d, i) PROVE restored(s) \subseteq Operation
  <2>1. s \in Flash BY SourcesType
  <2>2. Put(s, i, "recovery", "good") \in Flash /\ Put(s, i, "recovery", "bad") \in Flash
    BY <2>1, <1>2, PutType
  <2>3. {<<i, "recovery">>} \in SUBSET (Images \X Regions)
    BY <1>2
  <2> QED BY <2>2, <2>3, OutcomeType
<1>4. ASSUME NEW c \in Content, NEW st \in {"VerifyActive", "Failure"}, NEW b \in BOOLEAN
      PROVE  Outcome(st, flash, Put(flash, i, "active", c), {<<i, "active">>}, b) \in Operation
  BY <1>1, <1>2, PutType, OutcomeType
<1>5. (ufm /\ flash[i]["recovery"] = "good") \in BOOLEAN
  OBVIOUS
<1>6. ASSUME d.recovery # "Success" PROVE recover_image(d, i) \subseteq Operation
  <2>1. recover_image(d, i) \subseteq
          (UNION {restored(s) : s \in RecoverySources(d, i)}) \cup {Untouched("Failure", flash)}
    BY <1>6 DEF recover_image
  <2> HIDE DEF restored
  <2> QED BY <2>1, <1>1, <1>3
<1>7. ASSUME NEW o \in recover_image(d, i), d.recovery = "Success" PROVE o \in Operation
  BY <1>1, <1>2, <1>4, <1>5, <1>7 DEF recover_image
<1> QED
  BY <1>6, <1>7

-----------------------------------------------------------------------------
(* The queue, the bounds and the shared objects                            *)

\* post_smc_action keeps the queue a sequence over any set that holds the event.
LEMMA PostType ==
  ASSUME NEW S, NEW q \in Seq(S), NEW state, NEW a, NEW e,
         [state |-> state, ao |-> a, ev |-> e] \in S
  PROVE  post_smc_action(q, state, a, e) \in Seq(S)
  BY DEF post_smc_action

\* The PublishUpdateEvent calls keep the queue a sequence over any set that
\* holds their event.
LEMMA PublishUpdateType ==
  ASSUME NEW S, NEW q \in Seq(S), NEW n \in Nat,
         [state |-> "UPDATE", ao |-> "Update", ev |-> "Update"] \in S
  PROVE  PublishUpdateEvents(q, n) \in Seq(S)
<1> DEFINE room == IF Len(q) < QMax THEN QMax - Len(q) ELSE 0
           m == IF n < room THEN n ELSE room
           tail == [k \in 1..m |-> [state |-> "UPDATE", ao |-> "Update", ev |-> "Update"]]
<1>1. m \in Nat
  BY BoundsAssumption
<1>2. tail \in Seq(S)
  BY <1>1
<1> QED
  BY <1>2 DEF PublishUpdateEvents

\* The last element of a nonempty sequence is one of its elements.
LEMMA LastType ==
  ASSUME NEW S, NEW s \in Seq(S)
  PROVE  Len(s) \in Nat /\ (Len(s) # 0 => s[Len(s)] \in S)
  OBVIOUS

\* Events that match their objects are events.
LEMMA MatchedType == Matched \subseteq SmcEvent
  BY DEF Matched, SmcEvent, Events, AOs, Evs

\* Spending a finite number of faulty writes leaves natural bounds.
LEMMA SpendType ==
  ASSUME TypeOK, NEW faults, IsFiniteSet(faults), Spend(faults)
  PROVE  left' \in [bmcReset : Nat, timeout : Nat, fault : Nat, corrupt : Nat, reset : Nat,
                    cmd : Nat]
<1>1. Cardinality(faults) \in Nat
  BY FS_CardinalityType
<1>2. /\ left \in [bmcReset : Nat, timeout : Nat, fault : Nat, corrupt : Nat, reset : Nat, cmd : Nat]
      /\ Cardinality(faults) <= left.fault
      /\ left' = [left EXCEPT !.fault = @ - Cardinality(faults)]
  BY DEF TypeOK, Spend
<1> DEFINE n == left.fault - Cardinality(faults)
<1>3. n \in Nat
  BY <1>1, <1>2
<1>4. left' = [left EXCEPT !.fault = n]
  BY <1>2
<1> HIDE DEF n
<1> QED
  BY <1>2, <1>3, <1>4

\* So does spending the fault of a single operation.
LEMMA SpendOne ==
  ASSUME TypeOK, NEW o, Spend({x \in {o} : x.fault})
  PROVE  left' \in [bmcReset : Nat, timeout : Nat, fault : Nat, corrupt : Nat, reset : Nat,
                    cmd : Nat]
<1>1. IsFiniteSet({x \in {o} : x.fault})
  BY FS_Singleton, FS_Subset
<1> QED
  BY <1>1, SpendType

\* The objects a handler reads have the types AO_DATA and EVENT_CONTEXT.
LEMMA Objects ==
  ASSUME TypeOK
  PROVE  /\ \A a \in AOs : ao[a] \in AoData
         /\ \A e \in Evs : ev[e] \in EventContext
         /\ "Bmc" \in AOs
  BY DEF TypeOK, AOs

\* A store to one AO_DATA object leaves the others alone.
LEMMA AoStore ==
  ASSUME TypeOK, NEW a \in AOs, NEW d \in AoData
  PROVE  /\ [ao EXCEPT ![a] = d] \in [AOs -> AoData]
         /\ [ao EXCEPT ![a] = d][a] = d
         /\ \A b \in AOs : b # a => [ao EXCEPT ![a] = d][b] = ao[b]
         /\ "Bmc" \in AOs /\ "Update" \in AOs
  BY DEF TypeOK, AOs

\* A store to an EVENT_CONTEXT that keeps its image keeps all images.
LEMMA EvStore ==
  ASSUME TypeOK, NEW e \in Evs, NEW c \in EventContext, c.image = ev[e].image
  PROVE  /\ [ev EXCEPT ![e] = c] \in [Evs -> EventContext]
         /\ \A x \in Evs : [ev EXCEPT ![e] = c][x].image = ev[x].image
  BY DEF TypeOK

\* handleImageVerification changes a status field only.
LEMMA VerifiedType ==
  ASSUME NEW d \in AoData, NEW e, NEW st \in Status
  PROVE  Verified(d, e, st) \in AoData /\ Verified(d, e, st).pnc = d.pnc
  BY DEF AoData, Verified

-----------------------------------------------------------------------------
(* One lemma per action                                                    *)

\* run_verify up to the authentication preserves the invariant.
LEMMA VerifyBeginStep ==
  ASSUME IInv, VerifyBegin PROVE IInv'
<1> USE DEF IInv, VerifyBegin
<1>1. Running /\ cur = "VERIFY" /\ pc = "run"
  BY DEF Booting
<1>2. [state |-> cur, ao |-> ctx.ao, ev |-> ctx.ev] \in Matched
  BY <1>1 DEF Handling
<1>3. ctx.ao \in AOs /\ ctx.ev \in Evs
  BY <1>2 DEF Matched, AOs, Evs
<1>4. TypeOK'
  <2>1. authentication_image(ctx.ev) \in Operation
    BY UntouchedType DEF authentication_image, TypeOK
  <2> QED BY <2>1 DEF TypeOK, BootHold
<1>5. Running'
  BY <1>1 DEF Running
<1>6. Handling'
  BY <1>1, <1>2 DEF Handling
<1>7. Monitored'
  BY <1>1 DEF Monitored, BootHold
<1>8. UpdateHoldsBoth'
  BY <1>1 DEF UpdateHoldsBoth
<1>9. UpdateNamed'
  BY DEF UpdateNamed
<1> QED
  BY <1>4, <1>5, <1>6, <1>7, <1>8, <1>9

\* handlePostVerifySuccess preserves the invariant: where it clears
\* ProcessNewCommand of the BMC object, T0Transition enables the monitor.
LEMMA VerifySucceedsStep ==
  ASSUME IInv, VerifySucceeds PROVE IInv'
<1> USE DEF IInv
<1>1. Running /\ cur = "VERIFY" /\ pc = "auth"
  BY DEF Booting, Handling, VerifySucceeds
<1>2. [state |-> cur, ao |-> ctx.ao, ev |-> ctx.ev] \in Matched
  BY <1>1 DEF Handling
<1>3. ctx.ao \in AOs /\ ctx.ev \in Evs /\ (ctx.ao = "Bmc" => ctx.ev \in {"Bmc0", "Bmc1"})
  BY <1>2 DEF Matched, AOs, Evs
<1> DEFINE d == Verified(ao[ctx.ao], ctx.ev, "Success")
           done == d.active = "Success" /\ d.recovery = "Success"
<1>4. d \in AoData /\ d.pnc = ao[ctx.ao].pnc
  BY <1>3, VerifiedType DEF TypeOK, Status
<1>5. /\ ao' \in [AOs -> AoData]
      /\ ao' = [ao EXCEPT ![ctx.ao] = IF done THEN [d EXCEPT !.pnc = 0] ELSE d]
      /\ ao'["Bmc"].pnc = 1 => ao["Bmc"].pnc = 1
      /\ ao'["Bmc"].pnc = ao["Bmc"].pnc \/ (ctx.ao = "Bmc" /\ done)
      /\ ao'["Update"].pnc = 1 => ao["Update"].pnc = 1
  BY <1>3, <1>4 DEF TypeOK, AoData, VerifySucceeds, AOs
<1>6. TypeOK'
  BY <1>5 DEF TypeOK, VerifySucceeds, CheckAndReleasePlatform, T0Transition, linesVars, PlatformStates
<1>7. Running'
  BY <1>1, <1>5 DEF Running, VerifySucceeds, CheckAndReleasePlatform, T0Transition, linesVars
<1>8. Handling'
  BY <1>1, <1>2 DEF Handling, VerifySucceeds
<1>9. Monitored'
  <2>1. CASE done
    <3>1. CASE ev[ctx.ev].image = "BMC"
      BY <1>1, <2>1, <3>1 DEF Monitored, VerifySucceeds, CheckAndReleasePlatform, T0Transition
    <3>2. CASE ev[ctx.ev].image # "BMC"
      <4>1. UNCHANGED <<bmc, monitor, prov, cur>>
        BY <2>1, <3>2 DEF VerifySucceeds, CheckAndReleasePlatform, linesVars
      <4>2. ctx.ao = "Bmc" => ~prov
        BY <1>1, <1>3, <3>2 DEF Running
      <4> QED BY <1>1, <1>5, <4>1, <4>2 DEF Monitored
    <3> QED BY <3>1, <3>2
  <2>2. CASE ~done
    BY <1>1, <1>5, <2>2 DEF Monitored, VerifySucceeds, linesVars
  <2> QED BY <2>1, <2>2
<1>10. UpdateHoldsBoth'
  BY DEF UpdateHoldsBoth, VerifySucceeds
<1>11. UpdateNamed'
  BY <1>5 DEF UpdateNamed, VerifySucceeds
<1> QED
  BY <1>6, <1>7, <1>8, <1>9, <1>10, <1>11

\* handlePostVerifyFailure preserves the invariant.
LEMMA VerifyFailsStep ==
  ASSUME IInv, VerifyFails PROVE IInv'
<1> USE DEF IInv
<1>1. Running /\ cur = "VERIFY" /\ pc = "auth"
  BY DEF Booting, Handling, VerifyFails
<1>2. [state |-> cur, ao |-> ctx.ao, ev |-> ctx.ev] \in Matched
  BY <1>1 DEF Handling
<1>3. ctx.ao \in AOs /\ ctx.ev \in Evs
  BY <1>2 DEF Matched, AOs, Evs
<1> DEFINE d == Verified(ao[ctx.ao], ctx.ev, "Failure")
<1>4. d \in AoData /\ d.pnc = ao[ctx.ao].pnc
  BY <1>3, VerifiedType DEF TypeOK, Status
<1> HIDE DEF d
<1>5. /\ ao' \in [AOs -> AoData] /\ ao'["Bmc"].pnc = ao["Bmc"].pnc
      /\ ao'["Update"].pnc = ao["Update"].pnc
  <2>1. [d EXCEPT !.prev = "Verify"] \in AoData /\ [d EXCEPT !.prev = "Verify"].pnc = d.pnc
    BY <1>4 DEF AoData
  <2>2. PICK x \in AoData : x.pnc = d.pnc /\ ao' = [ao EXCEPT ![ctx.ao] = x]
    BY <1>4, <2>1 DEF VerifyFails, d
  <2>3. ao' \in [AOs -> AoData]
    BY <1>3, <2>2, AoStore
  <2>4. \A b \in AOs : ao'[b].pnc = ao[b].pnc
    BY <1>3, <1>4, <2>2, AoStore
  <2> QED BY <2>3, <2>4 DEF AOs
<1>6. ev' \in [Evs -> EventContext] /\ \A e \in Evs : ev'[e].image = ev[e].image
  <2> DEFINE c == [ev[ctx.ev] EXCEPT !.op = "RECOVER_ACTIVE"]
  <2>1. c \in EventContext /\ c.image = ev[ctx.ev].image
    <3>1. ev[ctx.ev] \in EventContext
      BY <1>3, Objects
    <3> QED BY <3>1 DEF EventContext
  <2>2. ev' = ev \/ ev' = [ev EXCEPT ![ctx.ev] = c]
    BY DEF VerifyFails
  <2> HIDE DEF c
  <2> QED BY <1>3, <2>1, <2>2, EvStore DEF TypeOK
<1>7. evq' \in Seq(Matched)
  <2>1. [state |-> "RECOVERY", ao |-> ctx.ao, ev |-> ctx.ev] \in Matched
    BY <1>1, <1>2 DEF Matched
  <2> QED BY <1>1, <2>1, PostType DEF VerifyFails, Running
<1>8. TypeOK'
  BY <1>5, <1>6, <1>7, MatchedType DEF TypeOK, VerifyFails
<1>9. Running'
  BY <1>1, <1>5, <1>6, <1>7 DEF Running, VerifyFails, Evs
<1>10. Handling'
  BY <1>1, <1>2 DEF Handling, VerifyFails
<1>11. Monitored'
  BY <1>5 DEF Monitored, VerifyFails
<1>12. UpdateHoldsBoth'
  BY DEF UpdateHoldsBoth, VerifyFails
<1>13. UpdateNamed'
  BY <1>5, <1>6 DEF UpdateNamed, Evs
<1> QED
  BY <1>8, <1>9, <1>10, <1>11, <1>12, <1>13

\* run_recovery up to the flash work preserves the invariant.
LEMMA RecoverBeginStep ==
  ASSUME IInv, RecoverBegin PROVE IInv'
<1> USE DEF IInv
<1> DEFINE d == ao[ctx.ao]
           i == IF ev[ctx.ev].image = "BMC" THEN "BMC" ELSE "PCH"
<1>1. Running /\ cur = "RECOVERY" /\ pc = "run"
  BY DEF Booting, RecoverBegin
<1>2. [state |-> cur, ao |-> ctx.ao, ev |-> ctx.ev] \in Matched
  BY <1>1 DEF Handling
<1>3. res' \in Operation /\ flash' \in Flash
      /\ left' \in [bmcReset : Nat, timeout : Nat, fault : Nat, corrupt : Nat, reset : Nat,
                    cmd : Nat]
  <2>1. CASE d.pnc = 0
    BY <2>1, UntouchedType, ZenonT(60) DEF RecoverBegin, TypeOK
  <2>2. CASE d.pnc # 0
    <3>1. PICK o \in recover_image(d, i) :
            Spend({x \in {o} : x.fault}) /\ res' = o /\ flash' = Erased(flash, o)
      BY <2>2 DEF RecoverBegin
    <3>2. i \in Images BY DEF Images
    <3>3. o \in Operation BY <3>2, RecoverImageType
    <3> QED BY <3>1, <3>3, SpendOne, ErasedType DEF TypeOK
  <2> QED BY <2>1, <2>2
<1>4. TypeOK'
  BY <1>3 DEF TypeOK, RecoverBegin, BootHold
<1>5. Running'
  BY <1>1 DEF Running, RecoverBegin
<1>6. Handling'
  BY <1>1, <1>2 DEF Handling, RecoverBegin
<1>7. Monitored'
  BY DEF Monitored, RecoverBegin, BootHold
<1>8. UpdateHoldsBoth'
  BY DEF UpdateHoldsBoth, RecoverBegin
<1>9. UpdateNamed'
  BY DEF UpdateNamed, RecoverBegin
<1> QED
  BY <1>4, <1>5, <1>6, <1>7, <1>8, <1>9

\* handleRecoveryAction and handlePostRecoverySuccess preserve the invariant.
LEMMA RecoverSucceedsStep ==
  ASSUME IInv, RecoverSucceeds PROVE IInv'
<1> USE DEF IInv
<1>1. Running /\ cur = "RECOVERY" /\ pc = "recover"
  BY DEF Booting, Handling, RecoverSucceeds
<1>2. [state |-> cur, ao |-> ctx.ao, ev |-> ctx.ev] \in Matched
  BY <1>1 DEF Handling
<1>3. ctx.ao \in AOs /\ ctx.ev \in Evs
  BY <1>2 DEF Matched, AOs, Evs
<1>4. /\ ao' \in [AOs -> AoData] /\ ao'["Bmc"].pnc = ao["Bmc"].pnc
      /\ ao'["Update"].pnc = ao["Update"].pnc
  <2> DEFINE d == [ao[ctx.ao] EXCEPT
                     !.prev = "Recovery",
                     !.active = IF res.status = "VerifyActive" THEN "Success" ELSE @,
                     !.recovery = IF res.status = "VerifyRecovery" THEN "Success" ELSE @]
  <2>1. d \in AoData /\ d.pnc = ao[ctx.ao].pnc
    <3>1. ao[ctx.ao] \in AoData
      BY <1>3, Objects
    <3> QED BY <3>1 DEF AoData, Status
  <2>2. ao' = [ao EXCEPT ![ctx.ao] = d]
    BY DEF RecoverSucceeds
  <2> HIDE DEF d
  <2>3. ao' \in [AOs -> AoData] /\ \A b \in AOs : ao'[b].pnc = ao[b].pnc
    BY <1>3, <2>1, <2>2, AoStore
  <2> QED BY <2>3 DEF AOs
<1>5. ev' \in [Evs -> EventContext] /\ \A e \in Evs : ev'[e].image = ev[e].image
  <2>1. PICK fl \in {"NONE", "PRIMARY", "SECONDARY"} :
          ev' = [ev EXCEPT ![ctx.ev] =
                  [@ EXCEPT !.flash = fl,
                            !.op = IF fl = "SECONDARY" THEN "VERIFY_BACKUP" ELSE "VERIFY_ACTIVE"]]
    <3>1. ev[ctx.ev].flash \in {"NONE", "PRIMARY", "SECONDARY"}
      BY <1>3 DEF TypeOK, EventContext
    <3> QED BY <3>1 DEF RecoverSucceeds
  <2> DEFINE c == [ev[ctx.ev] EXCEPT
                     !.flash = fl,
                     !.op = IF fl = "SECONDARY" THEN "VERIFY_BACKUP" ELSE "VERIFY_ACTIVE"]
  <2>2. c \in EventContext /\ c.image = ev[ctx.ev].image
    <3>1. ev[ctx.ev] \in EventContext
      BY <1>3, Objects
    <3> QED BY <3>1 DEF EventContext
  <2>3. ev' = [ev EXCEPT ![ctx.ev] = c]
    BY <2>1
  <2> HIDE DEF c
  <2> QED BY <1>3, <2>2, <2>3, EvStore
<1>6. evq' \in Seq(Matched)
  <2>1. [state |-> "VERIFY", ao |-> ctx.ao, ev |-> ctx.ev] \in Matched
    BY <1>1, <1>2 DEF Matched
  <2>2. evq \in Seq(Matched)
    BY <1>1 DEF Running
  <2>3. post_smc_action(evq, "VERIFY", ctx.ao, ctx.ev) \in Seq(Matched)
    BY <2>1, <2>2, PostType
  <2>4. post_smc_action(post_smc_action(evq, "VERIFY", ctx.ao, ctx.ev),
                        "VERIFY", ctx.ao, ctx.ev) \in Seq(Matched)
    BY <2>1, <2>3, PostType
  <2> QED BY <2>3, <2>4 DEF RecoverSucceeds
<1>7. flash' \in Flash
  BY ErasedType DEF RecoverSucceeds, TypeOK
<1>8. TypeOK'
  BY <1>4, <1>5, <1>6, <1>7, MatchedType DEF TypeOK, RecoverSucceeds
<1>9. Running'
  BY <1>1, <1>4, <1>5, <1>6 DEF Running, RecoverSucceeds, Evs
<1>10. Handling'
  BY <1>1, <1>2 DEF Handling, RecoverSucceeds
<1>11. Monitored'
  BY <1>4 DEF Monitored, RecoverSucceeds
<1>12. UpdateHoldsBoth'
  BY DEF UpdateHoldsBoth, RecoverSucceeds
<1>13. UpdateNamed'
  BY <1>4, <1>5 DEF UpdateNamed, Evs
<1> QED
  BY <1>8, <1>9, <1>10, <1>11, <1>12, <1>13

\* handlePostRecoveryFailure preserves the invariant: it locks down, releases
\* with a monitor, or leaves the BMC object alone.
LEMMA RecoverFailsStep ==
  ASSUME IInv, RecoverFails PROVE IInv'
<1> USE DEF IInv
<1>1. Running /\ cur = "RECOVERY" /\ pc = "recover"
  BY DEF Booting, Handling, RecoverFails
<1>2. [state |-> cur, ao |-> ctx.ao, ev |-> ctx.ev] \in Matched
  BY <1>1 DEF Handling
<1>3. ctx.ao \in AOs /\ ctx.ev \in Evs /\ (ctx.ao = "Bmc" => ctx.ev \in {"Bmc0", "Bmc1"})
  BY <1>2 DEF Matched, AOs, Evs
<1>4. /\ ao' \in [AOs -> AoData]
      /\ ao'["Bmc"].pnc = 1 => ao["Bmc"].pnc = 1
      /\ ctx.ao # "Bmc" => ao'["Bmc"].pnc = ao["Bmc"].pnc
      /\ ao'["Update"].pnc = 1 => ao["Update"].pnc = 1
  <2> DEFINE locked == [ao[ctx.ao] EXCEPT !.lockdown = 1, !.pnc = 0]
             freed == [ao[ctx.ao] EXCEPT !.pnc = 0]
  <2>1. locked \in AoData /\ freed \in AoData /\ locked.pnc = 0 /\ freed.pnc = 0
    <3>1. ao[ctx.ao] \in AoData
      BY <1>3, Objects
    <3> QED BY <3>1 DEF AoData
  <2>2. CASE ao' = ao
    BY <2>2 DEF TypeOK
  <2>3. CASE \E x \in {locked, freed} : ao' = [ao EXCEPT ![ctx.ao] = x]
    <3>1. PICK x \in {locked, freed} : ao' = [ao EXCEPT ![ctx.ao] = x]
      BY <2>3
    <3>2. x \in AoData /\ x.pnc = 0
      BY <2>1, <3>1
    <3>3. /\ ao' \in [AOs -> AoData]
          /\ \A b \in AOs : ao'[b].pnc = (IF b = ctx.ao THEN 0 ELSE ao[b].pnc)
      BY <1>3, <3>1, <3>2, AoStore
    <3> QED BY <3>3 DEF AOs
  <2> QED BY <2>2, <2>3 DEF RecoverFails
<1>5. flash' \in Flash
  BY ErasedType DEF RecoverFails, TypeOK
<1>6. TypeOK'
  <2>1. ctx' \in [ao : AOs \cup {"NULL"}, ev : Evs \cup {"NULL"}] /\ cur' \in States
        /\ pc' \in {"run", "parent"}
    BY DEF RecoverFails, TypeOK, States
  <2>2. /\ bmc' \in {"held", "released"} /\ pch' \in {"held", "released"}
        /\ wdt' \in [Images -> BOOLEAN] /\ monitor' \in BOOLEAN /\ platform' \in PlatformStates
    BY DEF RecoverFails, CheckAndReleasePlatform, T0Transition, linesVars, TypeOK, PlatformStates
  <2> QED BY <1>4, <1>5, <2>1, <2>2 DEF TypeOK, RecoverFails
<1>7. Running'
  BY <1>1, <1>4 DEF Running, RecoverFails, CheckAndReleasePlatform, T0Transition, linesVars
<1>8. Handling'
  <2>1. CASE cur' = "LOCKDOWN"
    <3>1. pc' = "run" /\ ctx'.ao = ctx.ao
      BY <1>1, <2>1 DEF RecoverFails, TypeOK
    <3> QED BY <1>3, <2>1, <3>1 DEF Handling, AOs
  <2>2. CASE pc' = "parent" /\ cur' = cur /\ ctx' = ctx
    BY <1>1, <1>2, <2>2 DEF Handling
  <2> QED BY <2>1, <2>2 DEF RecoverFails
<1>9. Monitored'
  <2>1. CASE cur' = "LOCKDOWN"
    BY <2>1 DEF Monitored
  <2>2. CASE T0Transition(TRUE, FALSE)
    BY <2>2 DEF Monitored, T0Transition, RecoverFails
  <2>3. CASE UNCHANGED linesVars /\ UNCHANGED ao
    BY <1>1, <2>3 DEF Monitored, RecoverFails, linesVars
  <2>4. CASE UNCHANGED linesVars /\ ev[ctx.ev].image # "BMC" /\ cur' = cur
    <3>1. ctx.ao = "Bmc" => ~prov
      BY <1>1, <1>3, <2>4 DEF Running
    <3> QED BY <1>1, <1>4, <2>4, <3>1 DEF Monitored, RecoverFails, linesVars
  <2> QED BY <2>1, <2>2, <2>3, <2>4 DEF RecoverFails, CheckAndReleasePlatform
<1>10. UpdateHoldsBoth'
  BY DEF UpdateHoldsBoth, RecoverFails
<1>11. UpdateNamed'
  BY <1>4 DEF UpdateNamed, RecoverFails
<1> QED
  BY <1>6, <1>7, <1>8, <1>9, <1>10, <1>11

\* Every PublishUpdateEvent call names an image and a region.
LEMMA UpdateEventsType ==
  ASSUME NEW bits
  PROVE  UpdateEvents(bits) \in Seq([image : {"BMC", "PCH", "HROT"}, flash : {"PRIMARY", "SECONDARY"}])
<1> DEFINE S == [image : {"BMC", "PCH", "HROT"}, flash : {"PRIMARY", "SECONDARY"}]
           call(made, i, f) == IF made THEN <<[image |-> i, flash |-> f]>> ELSE <<>>
<1>1. ASSUME NEW made, NEW i \in {"BMC", "PCH", "HROT"}, NEW f \in {"PRIMARY", "SECONDARY"}
      PROVE  call(made, i, f) \in Seq(S)
  <2>1. [image |-> i, flash |-> f] \in S
    OBVIOUS
  <2> HIDE DEF S
  <2> QED BY <2>1
<1>2. ASSUME NEW s \in Seq(S), NEW t \in Seq(S) PROVE s \o t \in Seq(S)
  OBVIOUS
<1>3. << >> \in Seq(S)
  OBVIOUS
<1> DEFINE rest == ~({"PchActiveUpdate", "PchRecoveryUpdate"} \subseteq bits)
           pchs == call("PchActiveUpdate" \in bits, "PCH", "PRIMARY")
                   \o call("PchRecoveryUpdate" \in bits /\ rest, "PCH", "SECONDARY")
           hrot == call("PlatfireActiveUpdte" \in bits /\ rest, "HROT", "PRIMARY")
           bmcs == call("BmcActiveUpdate" \in bits /\ rest, "BMC", "PRIMARY")
                   \o call("BmcRecoveryUpdate" \in bits /\ "BmcActiveUpdate" \notin bits /\ rest,
                           "BMC", "SECONDARY")
<1>4. UpdateEvents(bits) = IF "UpdateAtReset" \in bits THEN << >> ELSE pchs \o hrot \o bmcs
  BY DEF UpdateEvents
<1> HIDE DEF S, call
<1>5. pchs \in Seq(S) /\ hrot \in Seq(S) /\ bmcs \in Seq(S)
  BY <1>1, <1>2
<1> HIDE DEF pchs, hrot, bmcs
<1>6. UpdateEvents(bits) \in Seq(S)
  BY <1>2, <1>3, <1>4, <1>5
<1> QED
  BY <1>6 DEF S

\* handle_update_image_action preserves the invariant: it holds both
\* processors before it writes.
LEMMA UpdateBeginStep ==
  ASSUME IInv, UpdateBegin PROVE IInv'
<1> USE DEF IInv
<1> DEFINE e == ev[ctx.ev]
<1>1. Running /\ cur = "UPDATE" /\ pc = "run"
  BY DEF Booting, UpdateBegin
<1>2. [state |-> cur, ao |-> ctx.ao, ev |-> ctx.ev] \in Matched
  BY <1>1 DEF Handling
<1>3. /\ res' \in Operation /\ flash' \in Flash
      /\ left' \in [bmcReset : Nat, timeout : Nat, fault : Nat, corrupt : Nat, reset : Nat,
                    cmd : Nat]
      /\ bmc' \in {"held", "released"} /\ pch' \in {"held", "released"}
      /\ platform' \in PlatformStates
      /\ bmc' = bmc \/ bmc' = "held"
      /\ res'.writes # {} => bmc' = "held" /\ pch' = "held"
  <2>1. CASE ao[ctx.ao].pnc = 0
    BY <2>1, UntouchedType, ZenonT(60) DEF UpdateBegin, TypeOK
  <2>2. CASE ao[ctx.ao].pnc # 0
    <3>1. PICK o \in IF e.image = "HROT" THEN hrot_update(flash)
                     ELSE update_firmware_image(flash, cpld, e.image, RegionOf(e.flash)) :
            Spend({x \in {o} : x.fault}) /\ res' = o /\ flash' = Erased(flash, o)
      BY <2>2 DEF UpdateBegin
    <3>2. o \in Operation
      <4>1. CASE e.image = "HROT"
        BY <4>1, HrotUpdateType DEF TypeOK
      <4>2. CASE e.image # "HROT"
        <5>1. e.image \in Images
          <6>1. ctx.ao = "Update" /\ ctx.ev = "Update"
            BY <1>1, <1>2 DEF Matched
          <6>2. ao["Update"] \in AoData
            BY Objects DEF AOs
          <6>3. ao["Update"].pnc = 1
            BY <2>2, <6>1, <6>2 DEF AoData
          <6> QED BY <4>2, <6>1, <6>3 DEF UpdateNamed, Images
        <5>2. RegionOf(e.flash) \in {"active", "recovery"}
          BY DEF RegionOf
        <5> QED BY <4>2, <5>1, <5>2, UpdateImageType DEF TypeOK
      <4> QED BY <4>1, <4>2
    <3>3. BootHold /\ platform' \in PlatformStates
      BY <2>2 DEF UpdateBegin, PlatformStates
    <3> QED BY <3>1, <3>2, <3>3, SpendOne, ErasedType DEF TypeOK, BootHold
  <2> QED BY <2>1, <2>2
<1>4. TypeOK'
  BY <1>3 DEF TypeOK, UpdateBegin
<1>5. Running'
  BY <1>1 DEF Running, UpdateBegin
<1>6. Handling'
  BY <1>1, <1>2 DEF Handling, UpdateBegin
<1>7. Monitored'
  BY <1>3 DEF Monitored, UpdateBegin
<1>8. UpdateHoldsBoth'
  BY <1>3 DEF UpdateHoldsBoth, UpdateBegin
<1>9. UpdateNamed'
  BY DEF UpdateNamed, UpdateBegin
<1> QED
  BY <1>4, <1>5, <1>6, <1>7, <1>8, <1>9

\* The deferred updates of check_staging_area are operations.
LEMMA DeferredType ==
  ASSUME NEW f \in Flash, NEW flags, NEW flag \in {"CpldStatus", "BmcStatus", "PchStatus"}
  PROVE  Deferred(f, flags, flag) \subseteq Operation
<1>1. Untouched("Success", f) \in Operation
  BY UntouchedType
<1>2. hrot_update(f) \subseteq Operation
  BY HrotUpdateType
<1>3. ASSUME NEW i \in Images
      PROVE  UNION {update_firmware_image(f, flags, i, r) : r \in {"active", "recovery"}}
               \subseteq Operation
  <2>1. \A r \in {"active", "recovery"} : update_firmware_image(f, flags, i, r) \subseteq Operation
    BY UpdateImageType
  <2> QED BY <2>1
<1>4. "BMC" \in Images /\ "PCH" \in Images
  BY DEF Images
<1> QED
  BY <1>1, <1>2, <1>3, <1>4 DEF Deferred

\* check_staging_area keeps the types and never releases a processor.
LEMMA StagingAreaType ==
  ASSUME TypeOK, check_staging_area
  PROVE  /\ flash' \in Flash /\ ufm' \in BOOLEAN /\ cpld' \in SUBSET Flags
         /\ left' \in [bmcReset : Nat, timeout : Nat, fault : Nat, corrupt : Nat,
                       reset : Nat, cmd : Nat]
         /\ bmc' \in {"held", "released"} /\ pch' \in {"held", "released"}
         /\ platform' \in PlatformStates
         /\ bmc' = bmc \/ bmc' = "held"
<1>1. PICK h \in Deferred(flash, cpld, "CpldStatus"), b \in Deferred(flash, cpld, "BmcStatus") :
        \E flags \in {cpld, cpld \ b.clears} :
          \E p \in Deferred(Written(flash, b), flags, "PchStatus") :
            /\ Spend({o \in {b, p} : o.fault})
            /\ flash' = Written(Written(flash, b), p)
            /\ ufm' = (ufm /\ ~h.decommissions)
  BY DEF check_staging_area
<1>2. PICK flags \in {cpld, cpld \ b.clears} :
        \E p \in Deferred(Written(flash, b), flags, "PchStatus") :
          /\ Spend({o \in {b, p} : o.fault})
          /\ flash' = Written(Written(flash, b), p)
          /\ ufm' = (ufm /\ ~h.decommissions)
  BY <1>1
<1>3. PICK p \in Deferred(Written(flash, b), flags, "PchStatus") :
        /\ Spend({o \in {b, p} : o.fault})
        /\ flash' = Written(Written(flash, b), p)
        /\ ufm' = (ufm /\ ~h.decommissions)
  BY <1>2
<1>4. flash \in Flash
  BY DEF TypeOK
<1>5. b \in Operation
  BY <1>1, <1>4, DeferredType
<1>6. Written(flash, b) \in Flash
  BY <1>4, <1>5, ErasedType
<1>7. p \in Operation
  BY <1>3, <1>6, DeferredType
<1>8. flash' \in Flash
  BY <1>3, <1>6, <1>7, ErasedType
<1>9. left' \in [bmcReset : Nat, timeout : Nat, fault : Nat, corrupt : Nat, reset : Nat, cmd : Nat]
  <2>1. IsFiniteSet({b} \cup {p})
    BY FS_Singleton, FS_Union
  <2>2. IsFiniteSet({o \in {b, p} : o.fault})
    BY <2>1, FS_Subset
  <2> QED BY <1>3, <2>2, SpendType
<1> QED
  BY <1>3, <1>8, <1>9 DEF check_staging_area, TypeOK, BootHold, PlatformStates

\* PublishBmcEvents names the BMC in both its event contexts.
LEMMA PublishBmcType ==
  ASSUME TypeOK, NEW q \in Seq(Matched), PublishBmcEvents(q)
  PROVE  /\ evq' \in Seq(Matched)
         /\ ao' \in [AOs -> AoData] /\ ev' \in [Evs -> EventContext]
         /\ ao'["Bmc"].pnc = 1 /\ ao'["Update"] = ao["Update"]
         /\ ev'["Bmc0"].image = "BMC" /\ ev'["Bmc1"].image = "BMC"
         /\ ev'["Update"] = ev["Update"]
<1>1. evq' \in Seq(Matched)
  <2>1. \A e \in {"Bmc0", "Bmc1"} : [state |-> "VERIFY", ao |-> "Bmc", ev |-> e] \in Matched
    BY DEF Matched
  <2>2. post_smc_action(q, "VERIFY", "Bmc", "Bmc0") \in Seq(Matched)
    BY <2>1, PostType
  <2> QED BY <2>1, <2>2, PostType DEF PublishBmcEvents
<1>2. ao' \in [AOs -> AoData] /\ ao'["Bmc"].pnc = 1 /\ ao'["Update"] = ao["Update"]
  <2> DEFINE d == [type |-> "BMC", active |-> "Failure", recovery |-> "Failure",
                   prev |-> "Initial", pnc |-> 1, lockdown |-> ao["Bmc"].lockdown]
  <2>1. "Bmc" \in AOs /\ ao["Bmc"] \in AoData
    BY Objects
  <2>2. d \in AoData /\ d.pnc = 1
    BY <2>1 DEF AoData, Status
  <2>3. ao' = [ao EXCEPT !["Bmc"] = d]
    BY DEF PublishBmcEvents
  <2> HIDE DEF d
  <2> QED BY <2>1, <2>2, <2>3, AoStore
<1>3. /\ ev' \in [Evs -> EventContext]
      /\ ev'["Bmc0"].image = "BMC" /\ ev'["Bmc1"].image = "BMC" /\ ev'["Update"] = ev["Update"]
  <2>1. /\ [op |-> "VERIFY_BACKUP", image |-> "BMC", flash |-> "SECONDARY"] \in EventContext
        /\ [op |-> "VERIFY_ACTIVE", image |-> "BMC", flash |-> "PRIMARY"] \in EventContext
    BY DEF EventContext
  <2> QED BY <2>1 DEF PublishBmcEvents, TypeOK, Evs
<1> QED
  BY <1>1, <1>2, <1>3

\* PublishInitialEvents on a provisioned platform activates the BMC object;
\* otherwise it leaves objects and monitor alone.
LEMMA PublishInitialType ==
  ASSUME TypeOK, NEW q \in Seq(Matched), PublishInitialEvents(q)
  PROVE  /\ evq' \in Seq(Matched)
         /\ ao' \in [AOs -> AoData] /\ ev' \in [Evs -> EventContext]
         /\ bmc' \in {"held", "released"} /\ pch' \in {"held", "released"}
         /\ wdt' \in [Images -> BOOLEAN] /\ monitor' \in BOOLEAN
         /\ platform' \in PlatformStates
         /\ ufm' \in BOOLEAN /\ flash' \in Flash /\ cpld' \in SUBSET Flags
         /\ left' \in [bmcReset : Nat, timeout : Nat, fault : Nat, corrupt : Nat,
                       reset : Nat, cmd : Nat]
         /\ monitor' = monitor
         /\ prov => /\ ao'["Bmc"].pnc = 1
                    /\ ev'["Bmc0"].image = "BMC" /\ ev'["Bmc1"].image = "BMC"
         /\ ~prov => ao'["Bmc"].pnc = ao["Bmc"].pnc /\ ev' = ev
         /\ ao'["Update"] = ao["Update"] /\ ev'["Update"] = ev["Update"]
<1>1. CASE prov /\ check_staging_area /\ PublishBmcEvents(q) /\ UNCHANGED <<wdt, monitor>>
  BY <1>1, StagingAreaType, PublishBmcType DEF TypeOK
<1>2. CASE ~prov /\ T0Transition(TRUE, TRUE) /\ evq' = q
           /\ UNCHANGED <<ao, ev, ufm, flash, cpld, left>>
  <2>1. /\ bmc' = "released" /\ pch' = "released" /\ platform' = "ENTER_T0"
        /\ monitor' = monitor /\ wdt' \in [Images -> BOOLEAN]
    BY <1>2 DEF T0Transition, TypeOK
  <2> QED BY <1>2, <2>1 DEF TypeOK, PlatformStates
<1> QED
  BY <1>1, <1>2 DEF PublishInitialEvents

\* The end of an update preserves the invariant.
LEMMA UpdateEndStep ==
  ASSUME IInv, UpdateEnd PROVE IInv'
<1> USE DEF IInv
<1>1. Running /\ cur = "UPDATE" /\ pc = "update"
  BY DEF Booting, Handling, UpdateEnd
<1>2. [state |-> cur, ao |-> ctx.ao, ev |-> ctx.ev] \in Matched
  BY <1>1 DEF Handling
<1>3. ctx.ao = "Update"
  BY <1>1, <1>2 DEF Matched
<1>4. /\ ao' \in [AOs -> AoData] /\ ao'["Bmc"] = ao["Bmc"]
      /\ ao'["Update"].pnc = 0
  <2> DEFINE d == [ao["Update"] EXCEPT !.pnc = 0]
  <2>1. "Update" \in AOs /\ "Bmc" \in AOs /\ ao["Update"] \in AoData
    BY Objects DEF AOs
  <2>2. d \in AoData /\ d.pnc = 0
    BY <2>1 DEF AoData
  <2>3. ao' = [ao EXCEPT !["Update"] = d]
    BY <1>3 DEF UpdateEnd
  <2> HIDE DEF d
  <2> QED BY <2>1, <2>2, <2>3, AoStore
<1>5. flash' \in Flash /\ cpld' \in SUBSET Flags /\ ufm' \in BOOLEAN
  BY ErasedType DEF UpdateEnd, Persisted, TypeOK
<1>6. TypeOK'
  BY <1>4, <1>5 DEF TypeOK, UpdateEnd
<1>7. Running'
  BY <1>1, <1>4 DEF Running, UpdateEnd
<1>8. Handling'
  BY <1>1, <1>2 DEF Handling, UpdateEnd
<1>9. UpdateNamed'
  BY <1>4 DEF UpdateNamed
<1>10. Monitored' /\ UpdateHoldsBoth'
  BY <1>4 DEF Monitored, UpdateHoldsBoth, UpdateEnd
<1> QED
  BY <1>6, <1>7, <1>8, <1>9, <1>10

\* Publishing the initial events again preserves the invariant.
LEMMA UpdatePublishStep ==
  ASSUME IInv, UpdatePublish PROVE IInv'
<1> USE DEF IInv
<1>1. Running /\ cur = "UPDATE" /\ pc = "publish"
  BY DEF Booting, Handling, UpdatePublish
<1>2. evq \in Seq(Matched) /\ PublishInitialEvents(evq)
  BY <1>1 DEF Running, UpdatePublish
<1>3. TypeOK'
  BY <1>2, PublishInitialType, MatchedType DEF TypeOK, UpdatePublish
<1>4. Running'
  BY <1>1, <1>2, PublishInitialType DEF Running, UpdatePublish
<1>5. Handling'
  BY <1>1 DEF Handling, UpdatePublish
<1>6. UpdateNamed' /\ Monitored' /\ UpdateHoldsBoth'
  BY <1>2, PublishInitialType DEF UpdateNamed, Monitored, UpdateHoldsBoth, UpdatePublish
<1> QED
  BY <1>3, <1>4, <1>5, <1>6

\* A restart leads to a booting state, whatever the state before.
LEMMA RebootStep ==
  ASSUME Reboot, flash' \in Flash, ufm' \in BOOLEAN, cpld' \in SUBSET Flags,
         left' \in [bmcReset : Nat, timeout : Nat, fault : Nat, corrupt : Nat, reset : Nat,
                    cmd : Nat]
  PROVE  IInv'
<1>1. BlankAO \in AoData /\ BlankEv \in EventContext /\ BlankAO.pnc = 0
  BY DEF BlankAO, AoData, Status, BlankEv, EventContext
<1>2. NoContext \in [ao : AOs \cup {"NULL"}, ev : Evs \cup {"NULL"}]
  BY DEF NoContext
<1>3. NoOperation \in Operation
  BY DEF NoOperation, Operation, Flash, Content
<1>4. <<InitialEvent>> \in Seq(SmcEvent)
  BY DEF InitialEvent, SmcEvent, Events
<1>5. NoCommand \in Commands \cup {NoCommand}
  OBVIOUS
<1>6. ao' \in [AOs -> AoData] /\ ev' \in [Evs -> EventContext]
      /\ ao'["Bmc"].pnc = 0 /\ ao'["Update"].pnc = 0
  BY <1>1 DEF Reboot, AOs
<1>7. TypeOK'
  BY <1>2, <1>3, <1>4, <1>5, <1>6 DEF Reboot, TypeOK, States, PlatformStates
<1>8. Booting'
  BY <1>6 DEF Booting, Reboot
<1>9. Handling'
  BY DEF Handling, Reboot
<1>10. UpdateNamed' /\ Monitored' /\ UpdateHoldsBoth'
  BY <1>6 DEF UpdateNamed, Monitored, UpdateHoldsBoth, Reboot
<1> QED
  BY <1>7, <1>8, <1>9, <1>10 DEF IInv

\* The reboot after an HRoT update preserves the invariant.
LEMMA UpdateRebootStep ==
  ASSUME IInv, UpdateReboot PROVE IInv'
<1>1. flash' \in Flash /\ cpld' \in SUBSET Flags /\ ufm' \in BOOLEAN
  BY ErasedType DEF IInv, UpdateReboot, Persisted, TypeOK
<1> QED
  BY <1>1, RebootStep DEF IInv, TypeOK, UpdateReboot

\* A reset of the HRoT, also in the middle of an update, preserves the invariant.
LEMMA ResetStep ==
  ASSUME IInv, Reset PROVE IInv'
<1>1. flash' \in Flash /\ cpld' \in SUBSET Flags /\ ufm' \in BOOLEAN
  BY DEF IInv, Reset, TypeOK
<1>2. left' \in [bmcReset : Nat, timeout : Nat, fault : Nat, corrupt : Nat, reset : Nat, cmd : Nat]
  BY DEF IInv, Reset, TypeOK
<1> QED
  BY <1>1, <1>2, RebootStep DEF Reset

\* The state main() leaves satisfies the invariant.
LEMMA InitStep ==
  ASSUME Init PROVE IInv
<1>1. BlankAO \in AoData /\ BlankEv \in EventContext /\ BlankAO.pnc = 0
  BY DEF BlankAO, AoData, Status, BlankEv, EventContext
<1>2. NoContext \in [ao : AOs \cup {"NULL"}, ev : Evs \cup {"NULL"}]
  BY DEF NoContext
<1>3. NoOperation \in Operation
  BY DEF NoOperation, Operation, Flash, Content
<1>4. <<InitialEvent>> \in Seq(SmcEvent)
  BY DEF InitialEvent, SmcEvent, Events
<1>5. ao \in [AOs -> AoData] /\ ev \in [Evs -> EventContext]
      /\ ao["Bmc"].pnc = 0 /\ ao["Update"].pnc = 0
  BY <1>1 DEF Init, Boot, AOs
<1>6. cpld \in SUBSET Flags
  BY BoundsAssumption DEF Init
<1>7. left \in [bmcReset : Nat, timeout : Nat, fault : Nat, corrupt : Nat, reset : Nat, cmd : Nat]
  BY BoundsAssumption DEF Init
<1>8. TypeOK
  BY <1>2, <1>3, <1>4, <1>5, <1>6, <1>7 DEF Init, Boot, TypeOK, States, PlatformStates
<1>9. Booting
  BY <1>5 DEF Booting, Init, Boot
<1>10. Handling
  BY DEF Handling, Init, Boot
<1>11. UpdateNamed /\ Monitored /\ UpdateHoldsBoth
  BY <1>5 DEF UpdateNamed, Monitored, UpdateHoldsBoth, Init, Boot
<1> QED
  BY <1>8, <1>9, <1>10, <1>11 DEF IInv

\* process_i2c_command preserves the invariant, whatever the command.
LEMMA RunI2cStep ==
  ASSUME IInv, RunI2c PROVE IInv'
<1> USE DEF IInv
<1>1. Running /\ cur = "I2C" /\ pc = "run"
  BY DEF Booting, RunI2c
<1>2. [state |-> cur, ao |-> ctx.ao, ev |-> ctx.ev] \in Matched
  BY <1>1 DEF Handling
<1>3. /\ "I2c" \in AOs /\ "Update" \in AOs /\ "Bmc" \in AOs
      /\ ao["I2c"] \in AoData /\ ao["Update"] \in AoData
  BY Objects DEF AOs
<1> DEFINE served == [ao EXCEPT !["I2c"].pnc = 0]
<1>4. /\ served \in [AOs -> AoData] /\ served["Bmc"] = ao["Bmc"]
      /\ served["Update"] = ao["Update"]
  <2> DEFINE d == [ao["I2c"] EXCEPT !.pnc = 0]
  <2>1. d \in AoData
    BY <1>3 DEF AoData
  <2>2. served = [ao EXCEPT !["I2c"] = d]
    OBVIOUS
  <2> HIDE DEF d, served
  <2> QED BY <1>3, <2>1, <2>2, AoStore
<1>5. /\ evq' \in Seq(Matched)
      /\ ao' \in [AOs -> AoData] /\ ao'["Bmc"] = ao["Bmc"]
      /\ ev' \in [Evs -> EventContext]
      /\ ev'["Bmc0"] = ev["Bmc0"] /\ ev'["Bmc1"] = ev["Bmc1"]
      /\ UpdateNamed'
      /\ cpld' \in SUBSET Flags
  <2>1. CASE UNCHANGED <<ev, evq, cpld>> /\ (ao' = ao \/ ao' = served)
    <3> HIDE DEF served
    <3> QED BY <1>1, <1>4, <2>1 DEF Running, TypeOK, UpdateNamed
  <2>2. CASE UpdateIntentHandle(cmd.bits, cmd.source)
    <3> DEFINE calls == UpdateEvents(cmd.bits)
               n == Len(calls)
    <3>1. calls \in Seq([image : {"BMC", "PCH", "HROT"}, flash : {"PRIMARY", "SECONDARY"}])
      BY UpdateEventsType
    <3>2. /\ cpld' = cpld \cup UpdateFlags(cmd.bits, cmd.source)
          /\ evq' = PublishUpdateEvents(evq, n)
          /\ n = 0 => ao' = served /\ ev' = ev
          /\ n # 0 => /\ ao' = [ao EXCEPT !["I2c"].pnc = 0,
                                     !["Update"] = [@ EXCEPT !.type = calls[n].image, !.pnc = 1]]
                      /\ ev' = [ev EXCEPT !["Update"] = [op |-> "UPDATE_BACKUP",
                                       image |-> calls[n].image, flash |-> calls[n].flash]]
      BY <2>2 DEF UpdateIntentHandle
    <3> HIDE DEF calls, served
    <3>3. n \in Nat /\ (n # 0 => calls[n] \in [image : {"BMC", "PCH", "HROT"},
                                               flash : {"PRIMARY", "SECONDARY"}])
      BY <3>1, LastType
    <3> HIDE DEF n
    <3>4. evq' \in Seq(Matched)
      <4>1. [state |-> "UPDATE", ao |-> "Update", ev |-> "Update"] \in Matched
        BY DEF Matched
      <4> QED BY <1>1, <3>2, <3>3, <4>1, PublishUpdateType DEF Running
    <3>5. cpld' \in SUBSET Flags
      BY <3>2 DEF TypeOK, UpdateFlags
    <3>6. CASE n = 0
      BY <1>4, <3>2, <3>4, <3>5, <3>6 DEF TypeOK, UpdateNamed
    <3>7. CASE n # 0
      <4> DEFINE i == calls[n].image
                 d == [ao["Update"] EXCEPT !.type = i, !.pnc = 1]
                 c == [op |-> "UPDATE_BACKUP", image |-> i, flash |-> calls[n].flash]
      <4>1. i \in {"BMC", "PCH", "HROT"} /\ calls[n].flash \in {"PRIMARY", "SECONDARY"}
        BY <3>3, <3>7
      <4>2. d \in AoData
        BY <1>3, <4>1 DEF AoData
      <4>3. c \in EventContext /\ c.image \in {"BMC", "PCH", "HROT"}
        BY <4>1 DEF EventContext
      <4>4. ao' = [served EXCEPT !["Update"] = d]
        BY <1>3, <3>2, <3>7 DEF served, TypeOK
      <4>5. ev' = [ev EXCEPT !["Update"] = c]
        BY <3>2, <3>7
      <4> HIDE DEF c, d
      <4>6. ao' \in [AOs -> AoData] /\ ao'["Bmc"] = ao["Bmc"]
        BY <1>3, <1>4, <4>2, <4>4
      <4>7. /\ ev' \in [Evs -> EventContext] /\ ev'["Update"] = c
            /\ ev'["Bmc0"] = ev["Bmc0"] /\ ev'["Bmc1"] = ev["Bmc1"]
        BY <4>3, <4>5 DEF TypeOK, Evs
      <4> QED BY <3>4, <3>5, <4>3, <4>6, <4>7 DEF UpdateNamed
    <3> QED BY <3>6, <3>7
  <2> QED BY <2>1, <2>2 DEF RunI2c
<1>6. TypeOK'
  <2>1. cmd.kind \in {"Paused", "Resumed", "Completed"} => wdt' \in [Images -> BOOLEAN]
    BY DEF RunI2c, TypeOK
  <2>2. /\ wdt' \in [Images -> BOOLEAN] /\ platform' \in PlatformStates
        /\ prov' \in BOOLEAN /\ ufm' \in BOOLEAN
    BY <2>1 DEF RunI2c, TypeOK, PlatformStates
  <2> QED BY <1>5, <2>2, MatchedType DEF TypeOK, RunI2c
<1>7. prov' => prov
  BY DEF RunI2c
<1>8. Running'
  BY <1>1, <1>5, <1>7 DEF Running, RunI2c
<1>9. Handling'
  BY <1>1, <1>2 DEF Handling, RunI2c
<1>10. Monitored' /\ UpdateHoldsBoth'
  BY <1>5, <1>7 DEF Monitored, UpdateHoldsBoth, RunI2c
<1> QED
  BY <1>5, <1>6, <1>8, <1>9, <1>10

\* run_lockdown preserves the invariant.
LEMMA RunLockdownStep ==
  ASSUME IInv, RunLockdown PROVE IInv'
<1> USE DEF IInv
<1>1. Running /\ cur = "LOCKDOWN" /\ pc = "run"
  BY DEF Booting, RunLockdown
<1>2. ctx.ao \in AOs
  BY <1>1 DEF Handling, TypeOK
<1>3. ao' \in [AOs -> AoData] /\ ao'["Bmc"].pnc = ao["Bmc"].pnc /\ ao'["Update"].pnc = ao["Update"].pnc
  <2> DEFINE d == [ao[ctx.ao] EXCEPT !.lockdown = 1]
  <2>1. ao[ctx.ao] \in AoData
    BY <1>2, Objects
  <2>2. d \in AoData /\ d.pnc = ao[ctx.ao].pnc
    BY <2>1 DEF AoData
  <2>3. ao' = [ao EXCEPT ![ctx.ao] = d]
    BY DEF RunLockdown
  <2> HIDE DEF d
  <2>4. ao' \in [AOs -> AoData] /\ \A b \in AOs : ao'[b].pnc = ao[b].pnc
    BY <1>2, <2>2, <2>3, AoStore
  <2> QED BY <2>4 DEF AOs
<1>4. TypeOK'
  BY <1>3 DEF TypeOK, RunLockdown, PlatformStates
<1>5. Running'
  BY <1>1, <1>3 DEF Running, RunLockdown
<1>6. Handling'
  BY DEF Handling, RunLockdown
<1>7. UpdateNamed' /\ Monitored' /\ UpdateHoldsBoth'
  BY <1>3 DEF UpdateNamed, Monitored, UpdateHoldsBoth, RunLockdown
<1> QED
  BY <1>4, <1>5, <1>6, <1>7

\* run_idle with an empty queue preserves the invariant.
LEMMA IdleEmptyStep ==
  ASSUME IInv, IdleEmpty PROVE IInv'
<1> USE DEF IInv, IdleEmpty
<1>1. Running
  <2>1. evq # <<InitialEvent>>
    OBVIOUS
  <2> QED BY <2>1 DEF Booting
<1>2. cur # "LOCKDOWN" /\ (cur = "IDLE" => pc = "run")
  BY DEF AtIdle, Handling
<1>3. TypeOK'
  BY DEF TypeOK
<1>4. Running'
  BY <1>1 DEF Running
<1>5. Handling'
  BY <1>2 DEF Handling
<1>6. UpdateNamed' /\ Monitored' /\ UpdateHoldsBoth'
  BY DEF UpdateNamed, Monitored, UpdateHoldsBoth
<1> QED
  BY <1>3, <1>4, <1>5, <1>6

\* run_idle with the INITIALIZE event preserves the invariant: the queue holds
\* nothing else and no processor runs.
LEMMA IdleInitializeStep ==
  ASSUME IInv, IdleInitialize PROVE IInv'
<1> USE DEF IInv
<1>1. Booting
  <2>1. ASSUME evq \in Seq(Matched) PROVE FALSE
    <3>1. Head(evq) \in Matched
      BY <2>1 DEF IdleInitialize
    <3> QED BY <3>1 DEF IdleInitialize, Matched
  <2> QED BY <2>1 DEF Running
<1>2. Tail(evq) = << >> /\ << >> \in Seq(Matched)
  BY <1>1 DEF Booting
<1>3. << >> \in Seq(Matched) /\ PublishInitialEvents(<< >>)
  BY <1>2 DEF IdleInitialize
<1>4. TypeOK'
  <2>1. NoContext \in [ao : AOs \cup {"NULL"}, ev : Evs \cup {"NULL"}]
    BY DEF NoContext
  <2>2. evq' \in Seq(SmcEvent)
    <3>1. evq' \in Seq(Matched)
      BY <1>3, PublishInitialType
    <3> QED BY <3>1, MatchedType
  <2>3. UNCHANGED <<cur, res, cmd, prov>> /\ pc' = "run" /\ ctx' = NoContext
    BY DEF IdleInitialize
  <2> QED BY <1>3, <2>1, <2>2, <2>3, PublishInitialType DEF TypeOK
<1>5. Running'
  <2>1. evq' \in Seq(Matched) /\ monitor' = monitor
    BY <1>3, PublishInitialType
  <2>2. CASE prov
    BY <1>3, <2>1, <2>2, PublishInitialType DEF Running
  <2>3. CASE ~prov
    <3>1. ao'["Bmc"].pnc = 0 /\ ~monitor' /\ ~prov'
      BY <1>1, <1>3, <2>1, <2>3, PublishInitialType DEF Booting, IdleInitialize
    <3> QED BY <2>1, <3>1 DEF Running
  <2> QED BY <2>2, <2>3
<1>6. Handling'
  BY <1>1 DEF Handling, Booting, IdleInitialize
<1>7. UpdateNamed' /\ Monitored' /\ UpdateHoldsBoth'
  BY <1>3, PublishInitialType DEF UpdateNamed, Monitored, UpdateHoldsBoth, IdleInitialize
<1> QED
  BY <1>4, <1>5, <1>6, <1>7

\* run_idle with any other event preserves the invariant: the handler gets the
\* objects its state expects.
LEMMA IdleDispatchStep ==
  ASSUME IInv, IdleDispatch PROVE IInv'
<1> USE DEF IInv
<1> DEFINE e == Head(evq)
<1>1. Running
  <2>1. ASSUME evq = <<InitialEvent>> PROVE FALSE
    BY <2>1 DEF IdleDispatch, InitialEvent
  <2> QED BY <2>1 DEF Booting
<1>2. e \in Matched /\ Tail(evq) \in Seq(Matched)
  BY <1>1 DEF Running, IdleDispatch
<1>3. /\ cur' = e.state /\ ctx' = [ao |-> e.ao, ev |-> e.ev] /\ pc' = "run"
      /\ evq' = Tail(evq)
  BY DEF IdleDispatch
<1>4. /\ e.state \in {"VERIFY", "RECOVERY", "UPDATE", "I2C"}
      /\ e.ao \in AOs /\ e.ev \in Evs
      /\ e = [state |-> e.state, ao |-> e.ao, ev |-> e.ev]
  BY <1>2 DEF Matched, AOs, Evs
<1>5. platform' \in PlatformStates
  BY <1>4 DEF IdleDispatch, Entry, PlatformStates, TypeOK
<1> HIDE DEF e
<1>6. TypeOK'
  BY <1>2, <1>3, <1>4, <1>5, MatchedType DEF TypeOK, IdleDispatch, States
<1>7. Running'
  BY <1>1, <1>2, <1>3 DEF Running, IdleDispatch
<1>8. Handling'
  BY <1>2, <1>3, <1>4 DEF Handling
<1>9. UpdateNamed' /\ UpdateHoldsBoth'
  BY DEF UpdateNamed, UpdateHoldsBoth, IdleDispatch
<1>10. Monitored'
  <2>1. cur # "LOCKDOWN"
    BY DEF IdleDispatch, AtIdle, Handling
  <2> QED BY <2>1 DEF Monitored, IdleDispatch
<1> QED
  BY <1>6, <1>7, <1>8, <1>9, <1>10

\* bmc_rstind_handler preserves the invariant at any point of the main thread:
\* it disables the monitor and activates the BMC object in one step.
LEMMA BmcResetStep ==
  ASSUME IInv, BmcReset PROVE IInv'
<1> USE DEF IInv
<1>1. Running
  BY DEF BmcReset, Booting
<1>2. "Bmc" \in AOs /\ "Update" \in AOs /\ ao["Bmc"] \in AoData /\ "Bmc1" \in Evs
      /\ ev["Bmc1"] \in EventContext
  BY Objects DEF AOs, Evs
<1>3. ao' \in [AOs -> AoData] /\ ao'["Bmc"].pnc = 1 /\ ao'["Update"] = ao["Update"]
  <2> DEFINE d == [ao["Bmc"] EXCEPT !.active = "Failure", !.prev = "Initial", !.pnc = 1,
                                    !.type = "BMC"]
  <2>1. d \in AoData /\ d.pnc = 1
    BY <1>2 DEF AoData, Status
  <2>2. ao' = [ao EXCEPT !["Bmc"] = d]
    BY DEF BmcReset
  <2> HIDE DEF d
  <2> QED BY <1>2, <2>1, <2>2, AoStore
<1>4. /\ ev' \in [Evs -> EventContext] /\ ev'["Bmc0"] = ev["Bmc0"] /\ ev'["Bmc1"].image = "BMC"
      /\ ev'["Update"] = ev["Update"]
  <2> DEFINE c == [ev["Bmc1"] EXCEPT !.op = "VERIFY_ACTIVE", !.image = "BMC"]
  <2>1. c \in EventContext /\ c.image = "BMC"
    BY <1>2 DEF EventContext
  <2>2. ev' = [ev EXCEPT !["Bmc1"] = c]
    BY DEF BmcReset
  <2> HIDE DEF c
  <2> QED BY <2>1, <2>2 DEF TypeOK, Evs
<1>5. evq' \in Seq(Matched)
  <2>1. [state |-> "VERIFY", ao |-> "Bmc", ev |-> "Bmc1"] \in Matched
    BY DEF Matched
  <2> QED BY <1>1, <2>1, PostType DEF Running, BmcReset
<1>6. left' \in [bmcReset : Nat, timeout : Nat, fault : Nat, corrupt : Nat, reset : Nat, cmd : Nat]
  BY SMTT(40) DEF BmcReset, TypeOK
<1>7. TypeOK'
  <2>1. evq' \in Seq(SmcEvent)
    BY <1>5, MatchedType
  <2>2. monitor' \in BOOLEAN /\ platform' \in PlatformStates
    BY DEF BmcReset, PlatformStates
  <2> QED BY <1>3, <1>4, <1>6, <2>1, <2>2 DEF TypeOK, BmcReset
<1>8. Running'
  BY <1>1, <1>3, <1>4, <1>5 DEF Running, BmcReset
<1>9. Handling'
  BY DEF Handling, BmcReset
<1>10. UpdateNamed' /\ Monitored'
  BY <1>3, <1>4 DEF UpdateNamed, Monitored
<1>11. UpdateHoldsBoth'
  BY DEF UpdateHoldsBoth, BmcReset
<1> QED
  BY <1>7, <1>8, <1>9, <1>10, <1>11

\* The watchdog callbacks preserve the invariant at any point.
LEMMA WdtTimeoutStep ==
  ASSUME IInv, NEW i \in Images, WdtTimeout(i) PROVE IInv'
<1> USE DEF IInv
<1>1. Running
  BY DEF WdtTimeout, Booting
<1>2. "Bmc" \in AOs /\ "Update" \in AOs /\ "Wdt" \in AOs /\ ao["Wdt"] \in AoData
      /\ "Wdt" \in Evs /\ ev["Wdt"] \in EventContext
  BY Objects DEF AOs, Evs
<1>3. ao' \in [AOs -> AoData] /\ ao'["Bmc"] = ao["Bmc"] /\ ao'["Update"] = ao["Update"]
  <2> DEFINE d == [ao["Wdt"] EXCEPT !.active = "Failure", !.prev = "Initial", !.pnc = 1,
                                    !.type = i]
  <2>1. d \in AoData
    BY <1>2 DEF AoData, Status, Images
  <2>2. ao' = [ao EXCEPT !["Wdt"] = d]
    BY DEF WdtTimeout
  <2> HIDE DEF d
  <2> QED BY <1>2, <2>1, <2>2, AoStore
<1>4. /\ ev' \in [Evs -> EventContext] /\ ev'["Bmc0"] = ev["Bmc0"] /\ ev'["Bmc1"] = ev["Bmc1"]
      /\ ev'["Update"] = ev["Update"]
  <2> DEFINE c == [ev["Wdt"] EXCEPT !.op = "RECOVER_ACTIVE", !.image = i]
  <2>1. c \in EventContext
    BY <1>2 DEF EventContext, Images
  <2>2. ev' = [ev EXCEPT !["Wdt"] = c]
    BY DEF WdtTimeout
  <2> HIDE DEF c
  <2> QED BY <2>1, <2>2 DEF TypeOK, Evs
<1>5. evq' \in Seq(Matched)
  <2>1. [state |-> "RECOVERY", ao |-> "Wdt", ev |-> "Wdt"] \in Matched
    BY DEF Matched
  <2> QED BY <1>1, <2>1, PostType DEF Running, WdtTimeout
<1>6. left' \in [bmcReset : Nat, timeout : Nat, fault : Nat, corrupt : Nat, reset : Nat, cmd : Nat]
  BY SMTT(40) DEF WdtTimeout, TypeOK
<1>7. TypeOK'
  BY <1>3, <1>4, <1>5, <1>6, MatchedType, SMTT(40) DEF TypeOK, WdtTimeout, PlatformStates
<1>8. Running'
  BY <1>1, <1>3, <1>4, <1>5 DEF Running, WdtTimeout
<1>9. Handling'
  BY DEF Handling, WdtTimeout
<1>10. UpdateNamed' /\ Monitored' /\ UpdateHoldsBoth'
  BY <1>3, <1>4 DEF UpdateNamed, Monitored, UpdateHoldsBoth, WdtTimeout
<1> QED
  BY <1>7, <1>8, <1>9, <1>10

\* A mailbox write preserves the invariant at any point.
LEMMA I2cWriteStep ==
  ASSUME IInv, NEW c \in Commands, I2cWrite(c) PROVE IInv'
<1> USE DEF IInv
<1>1. Running
  BY DEF I2cWrite, Booting
<1>2. "Bmc" \in AOs /\ "Update" \in AOs /\ "I2c" \in AOs /\ ao["I2c"] \in AoData
      /\ "I2c" \in Evs /\ ev["I2c"] \in EventContext
  BY Objects DEF AOs, Evs
<1>3. ao' \in [AOs -> AoData] /\ ao'["Bmc"] = ao["Bmc"] /\ ao'["Update"] = ao["Update"]
  <2> DEFINE d == [ao["I2c"] EXCEPT !.pnc = 1, !.type = "I2C"]
  <2>1. d \in AoData
    BY <1>2 DEF AoData
  <2>2. ao' = [ao EXCEPT !["I2c"] = d]
    BY DEF I2cWrite
  <2> HIDE DEF d
  <2> QED BY <1>2, <2>1, <2>2, AoStore
<1>4. /\ ev' \in [Evs -> EventContext] /\ ev'["Bmc0"] = ev["Bmc0"] /\ ev'["Bmc1"] = ev["Bmc1"]
      /\ ev'["Update"] = ev["Update"]
  <2> DEFINE x == [ev["I2c"] EXCEPT !.op = "I2C_HANDLE"]
  <2>1. x \in EventContext
    BY <1>2 DEF EventContext
  <2>2. ev' = [ev EXCEPT !["I2c"] = x]
    BY DEF I2cWrite
  <2> HIDE DEF x
  <2> QED BY <2>1, <2>2 DEF TypeOK, Evs
<1>5. evq' \in Seq(Matched)
  <2>1. [state |-> "I2C", ao |-> "I2c", ev |-> "I2c"] \in Matched
    BY DEF Matched
  <2> QED BY <1>1, <2>1, PostType DEF Running, I2cWrite
<1>6. left' \in [bmcReset : Nat, timeout : Nat, fault : Nat, corrupt : Nat, reset : Nat, cmd : Nat]
  BY DEF I2cWrite, TypeOK
<1>7. TypeOK'
  BY <1>3, <1>4, <1>5, <1>6, MatchedType, SMTT(40) DEF TypeOK, I2cWrite
<1>8. Running'
  BY <1>1, <1>3, <1>4, <1>5 DEF Running, I2cWrite
<1>9. Handling'
  BY DEF Handling, I2cWrite
<1>10. UpdateNamed' /\ Monitored' /\ UpdateHoldsBoth'
  BY <1>3, <1>4 DEF UpdateNamed, Monitored, UpdateHoldsBoth, I2cWrite
<1> QED
  BY <1>7, <1>8, <1>9, <1>10

\* Damage to a flash region preserves the invariant.
LEMMA CorruptStep ==
  ASSUME IInv, NEW i \in Images, NEW r \in Regions, Corrupt(i, r) PROVE IInv'
<1> USE DEF IInv
<1>1. left' \in [bmcReset : Nat, timeout : Nat, fault : Nat, corrupt : Nat, reset : Nat, cmd : Nat]
  BY SMTT(40) DEF Corrupt, TypeOK
<1>2. flash' \in Flash
  BY DEF Corrupt, TypeOK, Flash, Content
<1>3. TypeOK'
  BY <1>1, <1>2 DEF TypeOK, Corrupt
<1>4. (Booting \/ Running)' /\ Handling' /\ UpdateNamed' /\ Monitored' /\ UpdateHoldsBoth'
  BY DEF Booting, Running, Handling, UpdateNamed, Monitored, UpdateHoldsBoth, Corrupt
<1> QED
  BY <1>3, <1>4

-----------------------------------------------------------------------------
(* The theorems                                                            *)

\* One step of Next, or a stuttering step, preserves IInv.
LEMMA NextStep ==
  ASSUME IInv, [Next]_vars PROVE IInv'
<1>1. CASE UNCHANGED vars
  BY <1>1 DEF vars, IInv, TypeOK, Booting, Running, Handling, UpdateNamed, Monitored,
              UpdateHoldsBoth
<1>2. CASE MainThread
  BY <1>2, IdleEmptyStep, IdleInitializeStep, IdleDispatchStep, VerifyBeginStep,
     VerifySucceedsStep, VerifyFailsStep, RecoverBeginStep, RecoverSucceedsStep,
     RecoverFailsStep, UpdateBeginStep, UpdateEndStep, UpdatePublishStep,
     UpdateRebootStep, RunI2cStep, RunLockdownStep DEF MainThread
<1>3. CASE Interrupt
  BY <1>3, BmcResetStep, WdtTimeoutStep, I2cWriteStep DEF Interrupt
<1>4. CASE Environment
  BY <1>4, ResetStep, CorruptStep DEF Environment
<1> QED
  BY <1>1, <1>2, <1>3, <1>4 DEF Next

\* IInv is an inductive invariant of the specification.
LEMMA Invariance == Spec => []IInv
<1>1. Init => IInv
  BY InitStep
<1>2. IInv /\ [Next]_vars => IInv'
  BY NextStep
<1> QED
  BY <1>1, <1>2, PTL DEF Spec

\* Every variable of the state machine stays in its domain, for any number of
\* interrupts, commands, faults and resets and any heap size.
THEOREM TypeCorrect == Spec => []TypeOK
<1>1. IInv => TypeOK
  BY DEF IInv
<1> QED
  BY <1>1, Invariance, PTL

\* No handler is ever run with the NULL objects of the INITIALIZE event or of
\* LockDownPlatform (run_verify, run_recovery, run_update, run_i2c, run_lockdown).
THEOREM NeverNull == Spec => []NoNullDereference
<1>1. IInv => NoNullDereference
  <2> SUFFICES ASSUME IInv PROVE NoNullDereference
    OBVIOUS
  <2>1. CASE cur = "IDLE"
    BY <2>1 DEF NoNullDereference
  <2>2. CASE cur = "LOCKDOWN"
    BY <2>2 DEF NoNullDereference, IInv, Handling
  <2>3. CASE cur \notin {"IDLE", "LOCKDOWN"}
    <3>1. [state |-> cur, ao |-> ctx.ao, ev |-> ctx.ev] \in Matched
      BY <2>3 DEF IInv, Handling
    <3> QED BY <3>1 DEF Matched, NoNullDereference
  <2> QED BY <2>1, <2>2, <2>3
<1> QED
  BY <1>1, Invariance, PTL

\* A provisioned BMC that runs is watched by bmc_rstind_handler, or its object
\* is still active, whatever the interrupts do between two steps of a handler.
THEOREM AlwaysMonitored == Spec => []Monitored
<1>1. IInv => Monitored
  BY DEF IInv
<1> QED
  BY <1>1, Invariance, PTL

\* Nothing but a reset of the HRoT leaves LOCKDOWN or moves a reset line in it.
THEOREM LockdownIsFinal == Spec => LockdownFinal
<1> DEFINE A == cur = "LOCKDOWN" => \/ cur' = "LOCKDOWN" /\ UNCHANGED <<bmc, pch>>
                                    \/ left'.reset < left.reset
<1>1. IInv /\ [Next]_vars => [A]_vars
  <2> SUFFICES ASSUME IInv, Next, cur = "LOCKDOWN"
               PROVE  \/ cur' = "LOCKDOWN" /\ UNCHANGED <<bmc, pch>>
                      \/ left'.reset < left.reset
    OBVIOUS
  <2>1. pc = "run"
    BY DEF IInv, Handling
  <2>2. CASE MainThread
    <3>1. RunLockdown
      BY <2>1, <2>2 DEF MainThread, AtIdle, IdleEmpty, IdleInitialize, IdleDispatch,
         VerifyBegin, VerifySucceeds, VerifyFails, RecoverBegin, RecoverSucceeds, RecoverFails,
         UpdateBegin, UpdateEnd, UpdatePublish, UpdateReboot, RunI2c
    <3> QED BY <3>1 DEF RunLockdown
  <2>3. CASE Interrupt
    BY <2>3 DEF Interrupt, BmcReset, WdtTimeout, I2cWrite
  <2>4. CASE \E i \in Images, r \in Regions : Corrupt(i, r)
    BY <2>4 DEF Corrupt
  <2>5. CASE Reset
    BY <2>5 DEF Reset, IInv, TypeOK
  <2> QED BY <2>2, <2>3, <2>4, <2>5 DEF Next, Environment
<1> QED
  BY <1>1, Invariance, PTL DEF LockdownFinal, Spec

-----------------------------------------------------------------------------
(* The queue: how many events wait, for any number of interrupts           *)

\* The events for state s with context e.
EventsOf(s, e) == {x \in Matched : x.state = s /\ x.ev = e}

\* Which and how many of the first k events of the queue q are in S, and how many
\* of all.
Places(q, k, S) == {j \in 1..k : q[j] \in S}
First(q, k, S) == Cardinality(Places(q, k, S))
Count(q, S) == First(q, Len(q), S)

\* The contexts that verifications and recoveries pass on to each other.
Chains == {"Bmc0", "Bmc1", "Wdt"}

\* The events by what they ask for.
Verifies(e) == EventsOf("VERIFY", e)
Recovers(e) == EventsOf("RECOVERY", e)
Updates == EventsOf("UPDATE", "Update")
Mails == EventsOf("I2C", "I2c")

\* Wherever the queue q is cut, the verifications behind the cut, and two for each
\* recovery before it, are at most n.
Fits(q, e, n) ==
  \A k \in 0..Len(q) :
    Count(q, Verifies(e)) - First(q, k, Verifies(e)) + 2 * First(q, k, Recovers(e)) <= n

\* The running handler may post verifications of e and allow e a recovery.
Posting(e) ==
  /\ pc # "parent"
  /\ \/ cur = "RECOVERY" /\ ctx.ev = e
     \/ cur = "UPDATE" /\ e # "Wdt"

\* One more recovery of e may be posted: a verification with this context may
\* fail, or has failed.
Armed(e) ==
  \/ ev[e].op \in {"VERIFY_ACTIVE", "VERIFY_BACKUP"}
  \/ pc = "auth" /\ ctx.ev = e /\ res.status = "Failure"
  \/ Posting(e)

\* How often e was armed from outside its own chain; and what commands that are
\* not executed and updates that wait have not used yet.
Granted(e) ==
  CASE e = "Bmc0" -> 1 + 3 * (MaxCmd - left.cmd)
    [] e = "Bmc1" -> 1 + 3 * (MaxCmd - left.cmd) + (MaxBmcReset - left.bmcReset)
    [] e = "Wdt" -> MaxTimeout - left.timeout
Unused(e) == IF e = "Wdt" THEN 0 ELSE Count(evq, Updates) + 3 * ao["I2c"].pnc
Quota(e) == Granted(e) - Unused(e)

\* A condition as a number.
One(b) == IF b THEN 1 ELSE 0

\* What waits in the chain of e, and what its handler may still post, is covered.
ChainKept(e) ==
  /\ Count(evq, Recovers(e)) + One(Armed(e)) <= Quota(e)
  /\ Fits(evq, e, 2 * Quota(e) - 2 * One(Posting(e)))

\* Commands and expiries that left a trace were counted.
Counted ==
  /\ left.cmd <= MaxCmd /\ left.bmcReset <= MaxBmcReset /\ left.timeout <= MaxTimeout
  /\ ao["I2c"].pnc = 1 => left.cmd < MaxCmd
  /\ ctx.ev = "Wdt" => left.timeout < MaxTimeout
  /\ Count(evq, Mails) <= MaxCmd - left.cmd

\* The inductive invariant of the queue.
LInv == Counted /\ \A e \in Chains : ChainKept(e)

\* What waits in the FIFO is linear in the interrupts and commands so far.
QueueLinear ==
  Len(evq) <= 6 + 3 * ((MaxBmcReset - left.bmcReset) + (MaxTimeout - left.timeout))
                + 19 * (MaxCmd - left.cmd)

-----------------------------------------------------------------------------
(* Counting events                                                         *)

\* The events among the first k are finitely many.
LEMMA FirstType ==
  ASSUME NEW q, NEW k \in Nat, NEW S
  PROVE  IsFiniteSet(Places(q, k, S)) /\ First(q, k, S) \in Nat
<1>1. IsFiniteSet(1..k)
  BY FS_Interval
<1>2. Places(q, k, S) \in SUBSET (1..k)
  BY DEF Places
<1> QED BY <1>1, <1>2, FS_Subset, FS_CardinalityType DEF First

\* Counting one event more.
LEMMA FirstNext ==
  ASSUME NEW q, NEW k \in Nat, NEW S
  PROVE  First(q, k + 1, S) = First(q, k, S) + One(q[k + 1] \in S)
<1>1. IsFiniteSet(Places(q, k, S)) /\ First(q, k, S) \in Nat
  BY FirstType
<1>2. CASE q[k + 1] \in S
  <2>1. Places(q, k + 1, S) = Places(q, k, S) \cup {k + 1} /\ k + 1 \notin Places(q, k, S)
    BY <1>2 DEF Places
  <2> QED BY <1>1, <1>2, <2>1, FS_AddElement DEF First, One
<1>3. CASE q[k + 1] \notin S
  <2>1. Places(q, k + 1, S) = Places(q, k, S)
    BY <1>3 DEF Places
  <2> QED BY <1>1, <1>3, <2>1 DEF First, One
<1> QED BY <1>2, <1>3

\* None comes before the first.
LEMMA FirstZero == ASSUME NEW q, NEW S PROVE First(q, 0, S) = 0
<1>1. Places(q, 0, S) = {}
  BY DEF Places
<1> QED BY <1>1, FS_EmptySet DEF First

\* A longer part of the queue has no fewer events.
LEMMA FirstGrows ==
  ASSUME NEW q, NEW k \in Nat, NEW m \in Nat, k <= m, NEW S
  PROVE  First(q, k, S) <= First(q, m, S)
<1>1. Places(q, k, S) \in SUBSET Places(q, m, S)
  BY DEF Places
<1> QED BY <1>1, FirstType, FS_Subset DEF First

\* An event added at the end.
LEMMA CountAppend ==
  ASSUME NEW q \in Seq(Matched), NEW x \in Matched, NEW S
  PROVE  /\ \A k \in 0..Len(q) : First(Append(q, x), k, S) = First(q, k, S)
         /\ Count(Append(q, x), S) = Count(q, S) + One(x \in S)
         /\ Len(Append(q, x)) = Len(q) + 1
<1>1. ASSUME NEW k \in 0..Len(q) PROVE First(Append(q, x), k, S) = First(q, k, S)
  <2>1. Places(Append(q, x), k, S) = Places(q, k, S)
    BY DEF Places
  <2> QED BY <2>1 DEF First
<1>2. Len(q) \in Nat /\ Len(Append(q, x)) = Len(q) + 1 /\ Append(q, x)[Len(q) + 1] = x
  OBVIOUS
<1>3. First(Append(q, x), Len(q) + 1, S) = First(Append(q, x), Len(q), S) + One(x \in S)
  BY <1>2, FirstNext
<1> QED BY <1>1, <1>2, <1>3 DEF Count

\* The first event taken off.
LEMMA CountTail ==
  ASSUME NEW q \in Seq(Matched), q # <<>>, NEW S
  PROVE  /\ \A k \in 0..Len(Tail(q)) :
              First(Tail(q), k, S) = First(q, k + 1, S) - One(Head(q) \in S)
         /\ Count(Tail(q), S) = Count(q, S) - One(Head(q) \in S)
         /\ Len(Tail(q)) \in Nat /\ Len(q) = Len(Tail(q)) + 1
<1>1. Len(Tail(q)) \in Nat /\ Len(q) = Len(Tail(q)) + 1 /\ Head(q) = q[1]
  OBVIOUS
<1>2. ASSUME NEW k \in 0..Len(Tail(q))
      PROVE  First(Tail(q), k, S) = First(q, k + 1, S) - One(Head(q) \in S)
  <2> DEFINE A == Places(Tail(q), k, S)
             B == Places(q, k + 1, S)
             f == [j \in A |-> j + 1]
  <2>0. k \in Nat /\ k + 1 \in Nat
    BY <1>1
  <2>1. \A j \in 1..k : Tail(q)[j] = q[j + 1]
    BY <1>1
  <2>2. IsFiniteSet(A) /\ IsFiniteSet(B) /\ Cardinality(B) \in Nat
    BY <2>0, FirstType DEF First
  <2>3. f \in Bijection(A, B \ {1})
    <3>1. f \in [A -> B \ {1}]
      BY <2>0, <2>1 DEF Places
    <3>2. \A i, j \in A : f[i] = f[j] => i = j
      BY <2>0 DEF Places
    <3>3. \A b \in B \ {1} : \E j \in A : f[j] = b
      <4> SUFFICES ASSUME NEW b \in B \ {1} PROVE b - 1 \in A /\ (b - 1) + 1 = b
        OBVIOUS
      <4>1. b \in Nat /\ b >= 2 /\ b <= k + 1 /\ q[b] \in S
        BY <2>0 DEF Places
      <4>2. b - 1 \in 1..k /\ (b - 1) + 1 = b
        BY <4>1, <2>0
      <4> QED BY <4>1, <4>2, <2>1 DEF Places
    <3> HIDE DEF f, A, B
    <3> QED BY <3>1, <3>2, <3>3 DEF Bijection, Injection, Surjection, IsInjective
  <2>4. Cardinality(B \ {1}) = Cardinality(A)
    <3> HIDE DEF f, A, B
    <3> QED BY <2>2, <2>3, FS_Bijection DEF ExistsBijection
  <2>5. Cardinality(B \ {1}) = IF 1 \in B THEN Cardinality(B) - 1 ELSE Cardinality(B)
    <3> HIDE DEF A, B
    <3> QED BY <2>2, FS_RemoveElement
  <2>6. 1 \in B <=> Head(q) \in S
    BY <1>1, <2>0 DEF Places
  <2> QED BY <2>2, <2>4, <2>5, <2>6 DEF First, One
<1> QED BY <1>1, <1>2 DEF Count

\* A count is a number.
LEMMA CountType == ASSUME NEW q, Len(q) \in Nat, NEW S PROVE Count(q, S) \in Nat
  BY FirstType DEF Count

\* What a queue that fits says of the whole: k is 0 and Len(q).
LEMMA FitsBounds ==
  ASSUME NEW q \in Seq(Matched), NEW e, NEW n \in Int, Fits(q, e, n)
  PROVE  Count(q, Verifies(e)) <= n /\ 2 * Count(q, Recovers(e)) <= n
<1>1. Len(q) \in Nat /\ 0 \in 0..Len(q) /\ Len(q) \in 0..Len(q)
  OBVIOUS
<1>2. First(q, 0, Verifies(e)) = 0 /\ First(q, 0, Recovers(e)) = 0
  BY FirstZero
<1>3. Count(q, Verifies(e)) \in Nat /\ Count(q, Recovers(e)) \in Nat
  BY CountType
<1>4. Count(q, Verifies(e)) - 0 + 2 * 0 <= n
  BY <1>1, <1>2 DEF Fits
<1>5. Count(q, Verifies(e)) - Count(q, Verifies(e)) + 2 * Count(q, Recovers(e)) <= n
  BY <1>1 DEF Fits, Count
<1> QED BY <1>3, <1>4, <1>5

\* A queue that fits in n places fits in more.
LEMMA FitsMore ==
  ASSUME NEW q, Len(q) \in Nat, NEW e, NEW n \in Int, NEW m \in Int, n <= m, Fits(q, e, n)
  PROVE  Fits(q, e, m)
<1> SUFFICES ASSUME NEW k \in 0..Len(q)
             PROVE  Count(q, Verifies(e)) - First(q, k, Verifies(e))
                      + 2 * First(q, k, Recovers(e)) <= m
  BY DEF Fits
<1>1. k \in Nat
  OBVIOUS
<1>2. /\ Count(q, Verifies(e)) \in Nat /\ First(q, k, Verifies(e)) \in Nat
      /\ First(q, k, Recovers(e)) \in Nat
  BY <1>1, CountType, FirstType
<1>3. Count(q, Verifies(e)) - First(q, k, Verifies(e)) + 2 * First(q, k, Recovers(e)) <= n
  BY DEF Fits
<1> QED BY <1>2, <1>3

\* A queue without events fits.
LEMMA FitsEmpty ==
  ASSUME NEW e, NEW n \in Nat
  PROVE  Fits(<<>>, e, n) /\ \A S : Count(<<>>, S) = 0
<1>1. Len(<<>>) = 0
  OBVIOUS
<1>2. \A S : Count(<<>>, S) = 0 /\ First(<<>>, 0, S) = 0
  BY <1>1, FirstZero DEF Count
<1> QED BY <1>1, <1>2 DEF Fits

\* Taking a recovery off frees two places.
LEMMA FitsTail ==
  ASSUME NEW q \in Seq(Matched), q # <<>>, NEW e, NEW n \in Int, Fits(q, e, n)
  PROVE  Fits(Tail(q), e, n - 2 * One(Head(q) \in Recovers(e)))
<1> DEFINE V == Verifies(e)
           R == Recovers(e)
<1> SUFFICES ASSUME NEW k \in 0..Len(Tail(q))
             PROVE  Count(Tail(q), V) - First(Tail(q), k, V) + 2 * First(Tail(q), k, R)
                      <= n - 2 * One(Head(q) \in R)
  BY DEF Fits
<1>1. k + 1 \in 0..Len(q) /\ k + 1 \in Nat
  BY CountTail
<1>2. Count(q, V) - First(q, k + 1, V) + 2 * First(q, k + 1, R) <= n
  BY <1>1 DEF Fits
<1>3. Count(q, V) \in Nat /\ First(q, k + 1, V) \in Nat /\ First(q, k + 1, R) \in Nat
  BY <1>1, CountType, FirstType
<1>4. /\ Count(Tail(q), V) = Count(q, V) - One(Head(q) \in V)
      /\ First(Tail(q), k, V) = First(q, k + 1, V) - One(Head(q) \in V)
      /\ First(Tail(q), k, R) = First(q, k + 1, R) - One(Head(q) \in R)
  BY CountTail
<1>5. One(Head(q) \in V) \in {0, 1} /\ One(Head(q) \in R) \in {0, 1}
  BY DEF One
<1> HIDE DEF V, R
<1> QED BY <1>2, <1>3, <1>4, <1>5, SMTT(40)

\* The queue with one more event: every verification needs one place more, and a
\* recovery two behind the ones that wait.
LEMMA FitsAppend ==
  ASSUME NEW q \in Seq(Matched), NEW x \in Matched, NEW e, NEW n \in Int, Fits(q, e, n),
         2 * Count(q, Recovers(e)) + 2 * One(x \in Recovers(e)) <= n + One(x \in Verifies(e))
  PROVE  Fits(Append(q, x), e, n + One(x \in Verifies(e)))
<1> DEFINE V == Verifies(e)
           R == Recovers(e)
           p == Append(q, x)
<1> SUFFICES ASSUME NEW k \in 0..Len(p)
             PROVE  Count(p, V) - First(p, k, V) + 2 * First(p, k, R) <= n + One(x \in V)
  BY DEF Fits
<1>1. One(x \in V) \in {0, 1} /\ One(x \in R) \in {0, 1}
  BY DEF One
<1>2. /\ Count(p, V) = Count(q, V) + One(x \in V)
      /\ Count(p, R) = Count(q, R) + One(x \in R)
      /\ Len(p) = Len(q) + 1
  BY CountAppend
<1>3. Count(q, V) \in Nat /\ Count(q, R) \in Nat
  BY CountType
<1>4. CASE k \in 0..Len(q)
  <2>1. First(p, k, V) = First(q, k, V) /\ First(p, k, R) = First(q, k, R)
    BY <1>4, CountAppend
  <2>2. k \in Nat /\ First(q, k, V) \in Nat /\ First(q, k, R) \in Nat
    BY <1>4, FirstType
  <2>3. Count(q, V) - First(q, k, V) + 2 * First(q, k, R) <= n
    BY <1>4 DEF Fits
  <2> HIDE DEF V, R, p
  <2> QED BY <1>1, <1>2, <1>3, <2>1, <2>2, <2>3, SMTT(40)
<1>5. CASE k = Len(q) + 1
  <2>1. First(p, k, V) = Count(p, V) /\ First(p, k, R) = Count(p, R)
    BY <1>2, <1>5 DEF Count
  <2> HIDE DEF p
  <2> QED BY <1>1, <1>2, <1>3, <2>1
<1> QED BY <1>2, <1>4, <1>5

\* Which events are counted together.
LEMMA Kinds ==
  ASSUME NEW s \in {"VERIFY", "RECOVERY"}, NEW c \in Chains, NEW a, NEW e \in Chains,
         [state |-> s, ao |-> a, ev |-> c] \in Matched
  PROVE  LET x == [state |-> s, ao |-> a, ev |-> c]
         IN /\ x \in Verifies(e) <=> s = "VERIFY" /\ e = c
            /\ x \in Recovers(e) <=> s = "RECOVERY" /\ e = c
            /\ x \notin Updates /\ x \notin Mails
  BY DEF Verifies, Recovers, Updates, Mails, EventsOf, Chains

\* post_smc_action of a verification.
LEMMA VerifyPosted ==
  ASSUME NEW q \in Seq(Matched), NEW c \in Chains, NEW a,
         [state |-> "VERIFY", ao |-> a, ev |-> c] \in Matched
  PROVE  LET p == post_smc_action(q, "VERIFY", a, c)
         IN /\ p \in Seq(Matched)
            /\ Count(p, Updates) = Count(q, Updates) /\ Count(p, Mails) = Count(q, Mails)
            /\ \A e \in Chains : Count(p, Recovers(e)) = Count(q, Recovers(e))
            /\ \A e \in Chains, n \in Int : Fits(q, e, n) => Fits(p, e, n + One(e = c))
<1> DEFINE x == [state |-> "VERIFY", ao |-> a, ev |-> c]
           p == post_smc_action(q, "VERIFY", a, c)
<1>1. p \in Seq(Matched) /\ (p = q \/ p = Append(q, x))
  BY PostType DEF post_smc_action
<1>2. /\ x \notin Updates /\ x \notin Mails
      /\ \A e \in Chains : x \notin Recovers(e) /\ (x \in Verifies(e) <=> e = c)
  BY Kinds
<1>3. CASE p = q
  <2>1. ASSUME NEW e \in Chains, NEW n \in Int, Fits(q, e, n) PROVE Fits(q, e, n + One(e = c))
    <3>1. n + One(e = c) \in Int /\ n <= n + One(e = c)
      BY DEF One
    <3> QED BY <2>1, <3>1, FitsMore
  <2> QED BY <1>1, <1>3, <2>1
<1>4. CASE p = Append(q, x)
  <2> HIDE DEF x, p
  <2>1. \A S : x \notin S => Count(p, S) = Count(q, S)
    <3> SUFFICES ASSUME NEW S, x \notin S PROVE Count(p, S) = Count(q, S)
      OBVIOUS
    <3>1. Count(p, S) = Count(q, S) + One(x \in S) /\ Count(q, S) \in Nat
      BY <1>4, CountAppend, CountType DEF x
    <3> QED BY <3>1 DEF One
  <2>2. ASSUME NEW e \in Chains, NEW n \in Int, Fits(q, e, n) PROVE Fits(p, e, n + One(e = c))
    <3>1. One(x \in Verifies(e)) = One(e = c) /\ One(x \in Recovers(e)) = 0
      BY <1>2 DEF One
    <3>2. One(e = c) \in {0, 1} /\ Count(q, Recovers(e)) \in Nat /\ 2 * Count(q, Recovers(e)) <= n
      BY <2>2, FitsBounds, CountType DEF One
    <3>3. 2 * Count(q, Recovers(e)) + 2 * One(x \in Recovers(e)) <= n + One(x \in Verifies(e))
      BY <3>1, <3>2
    <3> QED BY <1>4, <2>2, <3>1, <3>3, FitsAppend DEF x
  <2> QED BY <1>1, <1>2, <2>1, <2>2 DEF p
<1> QED BY <1>1, <1>3, <1>4

\* post_smc_action of a recovery.
LEMMA RecoveryPosted ==
  ASSUME NEW q \in Seq(Matched), NEW c \in Chains, NEW a,
         [state |-> "RECOVERY", ao |-> a, ev |-> c] \in Matched
  PROVE  LET p == post_smc_action(q, "RECOVERY", a, c)
         IN /\ p \in Seq(Matched)
            /\ Count(p, Updates) = Count(q, Updates) /\ Count(p, Mails) = Count(q, Mails)
            /\ \A e \in Chains : Count(p, Recovers(e)) <= Count(q, Recovers(e)) + One(e = c)
            /\ \A e \in Chains, n \in Int :
                 Fits(q, e, n) /\ (e = c => 2 * Count(q, Recovers(e)) + 2 <= n) => Fits(p, e, n)
<1> DEFINE x == [state |-> "RECOVERY", ao |-> a, ev |-> c]
           p == post_smc_action(q, "RECOVERY", a, c)
<1>1. p \in Seq(Matched) /\ (p = q \/ p = Append(q, x))
  BY PostType DEF post_smc_action
<1>2. /\ x \notin Updates /\ x \notin Mails
      /\ \A e \in Chains : x \notin Verifies(e) /\ (x \in Recovers(e) <=> e = c)
  BY Kinds
<1>3. CASE p = q
  <2>1. \A e \in Chains : Count(q, Recovers(e)) <= Count(q, Recovers(e)) + One(e = c)
    BY CountType DEF One
  <2> QED BY <1>1, <1>3, <2>1
<1>4. CASE p = Append(q, x)
  <2> HIDE DEF x, p
  <2>1. \A S : Count(p, S) = Count(q, S) + One(x \in S) /\ Count(q, S) \in Nat
    BY <1>4, CountAppend, CountType DEF x
  <2>2. ASSUME NEW e \in Chains, NEW n \in Int, Fits(q, e, n),
               e = c => 2 * Count(q, Recovers(e)) + 2 <= n
        PROVE  Fits(p, e, n)
    <3>1. One(x \in Verifies(e)) = 0 /\ One(x \in Recovers(e)) = One(e = c)
      BY <1>2 DEF One
    <3>2. Count(q, Recovers(e)) \in Nat /\ 2 * Count(q, Recovers(e)) <= n
      BY <2>2, FitsBounds, CountType
    <3>3. 2 * Count(q, Recovers(e)) + 2 * One(x \in Recovers(e)) <= n + One(x \in Verifies(e))
      BY <2>2, <3>1, <3>2 DEF One
    <3>4. Fits(p, e, n + One(x \in Verifies(e)))
      BY <1>4, <2>2, <3>3, FitsAppend DEF x
    <3> QED BY <3>1, <3>4
  <2>3. \A e \in Chains : Count(p, Recovers(e)) <= Count(q, Recovers(e)) + One(e = c)
    BY <1>2, <2>1 DEF One
  <2>4. Count(p, Updates) = Count(q, Updates) /\ Count(p, Mails) = Count(q, Mails)
    BY <1>2, <2>1 DEF One
  <2> QED BY <1>1, <2>2, <2>3, <2>4 DEF p
<1> QED BY <1>1, <1>3, <1>4

\* post_smc_action of a mailbox command.
LEMMA MailPosted ==
  ASSUME NEW q \in Seq(Matched)
  PROVE  LET p == post_smc_action(q, "I2C", "I2c", "I2c")
         IN /\ p \in Seq(Matched)
            /\ Count(p, Updates) = Count(q, Updates) /\ Count(p, Mails) <= Count(q, Mails) + 1
            /\ \A e \in Chains : Count(p, Recovers(e)) = Count(q, Recovers(e))
            /\ \A e \in Chains, n \in Int : Fits(q, e, n) => Fits(p, e, n)
<1> DEFINE x == [state |-> "I2C", ao |-> "I2c", ev |-> "I2c"]
           p == post_smc_action(q, "I2C", "I2c", "I2c")
<1>1. x \in Matched
  BY DEF Matched
<1>2. p \in Seq(Matched) /\ (p = q \/ p = Append(q, x))
  BY <1>1, PostType DEF post_smc_action
<1>3. x \notin Updates /\ \A e \in Chains : x \notin Recovers(e) /\ x \notin Verifies(e)
  BY DEF Updates, Recovers, Verifies, EventsOf
<1>4. CASE p = q
  BY <1>2, <1>4, CountType
<1>5. CASE p = Append(q, x)
  <2> HIDE DEF x, p
  <2>1. \A S : Count(p, S) = Count(q, S) + One(x \in S) /\ Count(q, S) \in Nat
    BY <1>1, <1>5, CountAppend, CountType
  <2>2. Count(p, Updates) = Count(q, Updates) /\ Count(p, Mails) <= Count(q, Mails) + 1
    BY <1>3, <2>1 DEF One
  <2>3. \A e \in Chains : Count(p, Recovers(e)) = Count(q, Recovers(e))
    BY <1>3, <2>1 DEF One
  <2>4. ASSUME NEW e \in Chains, NEW n \in Int, Fits(q, e, n) PROVE Fits(p, e, n)
    <3>1. One(x \in Verifies(e)) = 0 /\ One(x \in Recovers(e)) = 0
      BY <1>3 DEF One
    <3>2. Count(q, Recovers(e)) \in Nat /\ 2 * Count(q, Recovers(e)) <= n
      BY <2>4, FitsBounds, CountType
    <3>3. Fits(p, e, n + One(x \in Verifies(e)))
      BY <1>1, <1>5, <2>4, <3>1, <3>2, FitsAppend
    <3> QED BY <3>1, <3>3
  <2> QED BY <1>2, <2>2, <2>3, <2>4 DEF p
<1> QED BY <1>2, <1>4, <1>5

\* The PublishUpdateEvent calls add at most n updates and nothing else.
LEMMA UpdatesPosted ==
  ASSUME NEW q \in Seq(Matched), NEW n \in Nat
  PROVE  LET p == PublishUpdateEvents(q, n)
         IN /\ p \in Seq(Matched)
            /\ Count(p, Updates) <= Count(q, Updates) + n /\ Count(p, Mails) = Count(q, Mails)
            /\ \A e \in Chains : Count(p, Recovers(e)) = Count(q, Recovers(e))
            /\ \A e \in Chains, d \in Int : Fits(q, e, d) => Fits(p, e, d)
<1> DEFINE x == [state |-> "UPDATE", ao |-> "Update", ev |-> "Update"]
           room == IF Len(q) < QMax THEN QMax - Len(q) ELSE 0
           m == IF n < room THEN n ELSE room
           tail == [k \in 1..m |-> x]
           p == PublishUpdateEvents(q, n)
<1>1. m \in Nat /\ m <= n /\ Len(q) \in Nat
  BY BoundsAssumption
<1>2. x \in Matched
  BY DEF Matched
<1>3. p \in Seq(Matched)
  BY <1>2, PublishUpdateType
<1>4. /\ p = q \o tail /\ Len(p) = Len(q) + m
      /\ \A j \in 1..Len(q) : p[j] = q[j]
      /\ \A j \in (Len(q) + 1)..(Len(q) + m) : p[j] = x
  <2>1. tail \in Seq(Matched) /\ Len(tail) = m /\ \A j \in 1..m : tail[j] = x
    <3> HIDE DEF x, m
    <3> QED BY <1>1, <1>2
  <2>2. p = q \o tail
    BY DEF PublishUpdateEvents
  <2> HIDE DEF tail, m, p, x
  <2>3. /\ Len(q \o tail) = Len(q) + m
        /\ \A j \in 1..Len(q) : (q \o tail)[j] = q[j]
    BY <1>1, <2>1
  <2>4. ASSUME NEW j \in (Len(q) + 1)..(Len(q) + m) PROVE (q \o tail)[j] = x
    <3>1. j - Len(q) \in 1..m /\ j \in 1..(Len(q) + m) /\ ~(j <= Len(q))
      BY <1>1
    <3>2. (q \o tail)[j] = tail[j - Len(q)]
      BY <1>1, <2>1, <3>1
    <3> QED BY <2>1, <3>1, <3>2
  <2> QED BY <2>2, <2>3, <2>4
<1>5. x \notin Mails /\ \A e \in Chains : x \notin Recovers(e) /\ x \notin Verifies(e)
  BY DEF Mails, Recovers, Verifies, EventsOf
<1> HIDE DEF p, tail, m, x
<1>6. ASSUME NEW S, NEW k \in 0..Len(q) PROVE First(p, k, S) = First(q, k, S)
  <2>1. Places(p, k, S) = Places(q, k, S)
    BY <1>1, <1>4 DEF Places
  <2> QED BY <2>1 DEF First
<1>7. ASSUME NEW S, x \notin S, NEW k \in Len(q)..Len(p) PROVE First(p, k, S) = Count(q, S)
  <2>1. Places(p, k, S) = Places(q, Len(q), S)
    <3>1. \A j \in 1..k : j \in 1..Len(q) \/ p[j] = x
      BY <1>1, <1>4
    <3>2. 1..Len(q) \subseteq 1..k
      BY <1>1, <1>4
    <3> QED BY <1>4, <1>7, <3>1, <3>2 DEF Places
  <2> QED BY <2>1 DEF First, Count
<1>8. \A S : x \notin S => Count(p, S) = Count(q, S)
  <2>1. Len(p) \in Len(q)..Len(p)
    BY <1>1, <1>4
  <2> QED BY <1>7, <2>1 DEF Count
<1>9. Count(p, Updates) <= Count(q, Updates) + n
  <2> DEFINE A == Places(q, Len(q), Updates)
             B == (Len(q) + 1)..(Len(q) + m)
  <2>1. IsFiniteSet(A) /\ Cardinality(A) = Count(q, Updates) /\ Count(q, Updates) \in Nat
    BY <1>1, FirstType DEF First, Count
  <2>2. IsFiniteSet(B) /\ Cardinality(B) = m
    <3>1. Len(q) + 1 \in Int /\ Len(q) + m \in Int
      BY <1>1
    <3>2. IsFiniteSet(B) /\ Cardinality(B) = IF Len(q) + 1 > Len(q) + m THEN 0
                                              ELSE (Len(q) + m) - (Len(q) + 1) + 1
      BY <3>1, FS_Interval
    <3> QED BY <1>1, <3>2
  <2>3. Places(p, Len(p), Updates) \in SUBSET (A \cup B)
    BY <1>1, <1>4 DEF Places
  <2> HIDE DEF A, B
  <2>4. IsFiniteSet(A \cup B) /\ Cardinality(A \cup B) <= Cardinality(A) + Cardinality(B)
    <3>1. /\ IsFiniteSet(A \cup B)
          /\ Cardinality(A \cup B) = Cardinality(A) + Cardinality(B) - Cardinality(A \cap B)
      BY <2>1, <2>2, FS_Union
    <3>2. A \cap B \in SUBSET A
      OBVIOUS
    <3>3. Cardinality(A \cap B) \in Nat
      BY <2>1, <3>2, FS_Subset, FS_CardinalityType
    <3> QED BY <1>1, <2>1, <2>2, <3>1, <3>3
  <2>5. Count(p, Updates) <= Cardinality(A \cup B) /\ Count(p, Updates) \in Nat
    BY <1>3, <2>3, <2>4, FS_Subset, CountType DEF Count, First
  <2>6. Cardinality(A \cup B) \in Nat
    BY <2>4, FS_CardinalityType
  <2> QED BY <1>1, <2>1, <2>2, <2>4, <2>5, <2>6
<1>10. ASSUME NEW e \in Chains, NEW d \in Int, Fits(q, e, d) PROVE Fits(p, e, d)
  <2> DEFINE V == Verifies(e)
             R == Recovers(e)
  <2>1. Count(p, V) = Count(q, V)
    BY <1>5, <1>8
  <2> SUFFICES ASSUME NEW k \in 0..Len(p)
               PROVE  Count(p, V) - First(p, k, V) + 2 * First(p, k, R) <= d
    BY DEF Fits
  <2>2. CASE k \in 0..Len(q)
    <3>1. Count(q, V) - First(q, k, V) + 2 * First(q, k, R) <= d
      BY <1>10, <2>2 DEF Fits
    <3> QED BY <1>6, <2>1, <2>2, <3>1
  <2>3. CASE k \in Len(q)..Len(p)
    <3>1. First(p, k, V) = Count(q, V) /\ First(p, k, R) = Count(q, R)
      BY <1>5, <1>7, <2>3
    <3>2. 2 * Count(q, R) <= d /\ Count(q, V) \in Nat /\ Count(q, R) \in Nat
      BY <1>10, FitsBounds, CountType
    <3> HIDE DEF V, R
    <3> QED BY <2>1, <3>1, <3>2
  <2> QED BY <1>1, <1>4, <2>2, <2>3
<1> QED BY <1>3, <1>5, <1>8, <1>9, <1>10 DEF p

\* UpdateIntentHandle calls PublishUpdateEvent at most three times.
LEMMA ThreeUpdates == ASSUME NEW bits PROVE Len(UpdateEvents(bits)) \in 0..3
<1> DEFINE S == [image : {"BMC", "PCH", "HROT"}, flash : {"PRIMARY", "SECONDARY"}]
           call(made, i, f) == IF made THEN <<[image |-> i, flash |-> f]>> ELSE <<>>
           rest == ~({"PchActiveUpdate", "PchRecoveryUpdate"} \subseteq bits)
           pchActive == call("PchActiveUpdate" \in bits, "PCH", "PRIMARY")
           pchRecovery == call("PchRecoveryUpdate" \in bits /\ rest, "PCH", "SECONDARY")
           hrot == call("PlatfireActiveUpdte" \in bits /\ rest, "HROT", "PRIMARY")
           bmcActive == call("BmcActiveUpdate" \in bits /\ rest, "BMC", "PRIMARY")
           bmcRecovery == call("BmcRecoveryUpdate" \in bits /\ "BmcActiveUpdate" \notin bits /\ rest,
                               "BMC", "SECONDARY")
<1>1. ASSUME NEW made, NEW i \in {"BMC", "PCH", "HROT"}, NEW f \in {"PRIMARY", "SECONDARY"}
      PROVE  call(made, i, f) \in Seq(S) /\ Len(call(made, i, f)) \in 0..1
  <2>1. [image |-> i, flash |-> f] \in S
    OBVIOUS
  <2> HIDE DEF S
  <2> QED BY <2>1
<1>2. UpdateEvents(bits) = IF "UpdateAtReset" \in bits THEN <<>>
                           ELSE (pchActive \o pchRecovery) \o hrot \o (bmcActive \o bmcRecovery)
  BY DEF UpdateEvents
<1>3. pchActive = <<>> \/ pchRecovery = <<>>
  OBVIOUS
<1>4. bmcActive = <<>> \/ bmcRecovery = <<>>
  OBVIOUS
<1>5. ASSUME NEW s \in Seq(S), NEW t \in Seq(S)
      PROVE  s \o t \in Seq(S) /\ Len(s \o t) = Len(s) + Len(t)
  OBVIOUS
<1> HIDE DEF S, call
<1>6. /\ pchActive \in Seq(S) /\ Len(pchActive) \in 0..1
      /\ pchRecovery \in Seq(S) /\ Len(pchRecovery) \in 0..1
      /\ hrot \in Seq(S) /\ Len(hrot) \in 0..1
  BY <1>1
<1>7. /\ bmcActive \in Seq(S) /\ Len(bmcActive) \in 0..1
      /\ bmcRecovery \in Seq(S) /\ Len(bmcRecovery) \in 0..1
  BY <1>1
<1> HIDE DEF pchActive, pchRecovery, hrot, bmcActive, bmcRecovery
<1>8. Len(<<>>) = 0
  OBVIOUS
<1>9. \A a, b \in 0..1 : a = 0 \/ b = 0 => a + b \in 0..1
  OBVIOUS
<1>10. pchActive \o pchRecovery \in Seq(S) /\ Len(pchActive \o pchRecovery) \in 0..1
  <2>1. /\ pchActive \o pchRecovery \in Seq(S)
        /\ Len(pchActive \o pchRecovery) = Len(pchActive) + Len(pchRecovery)
    BY <1>5, <1>6
  <2>2. Len(pchActive) = 0 \/ Len(pchRecovery) = 0
    BY <1>3, <1>8
  <2>3. Len(pchActive) + Len(pchRecovery) \in 0..1
    BY <1>6, <1>9, <2>2, Zenon
  <2> QED BY <2>1, <2>3, Zenon
<1>11. bmcActive \o bmcRecovery \in Seq(S) /\ Len(bmcActive \o bmcRecovery) \in 0..1
  <2>1. /\ bmcActive \o bmcRecovery \in Seq(S)
        /\ Len(bmcActive \o bmcRecovery) = Len(bmcActive) + Len(bmcRecovery)
    BY <1>5, <1>7
  <2>2. Len(bmcActive) = 0 \/ Len(bmcRecovery) = 0
    BY <1>4, <1>8
  <2>3. Len(bmcActive) + Len(bmcRecovery) \in 0..1
    BY <1>7, <1>9, <2>2, Zenon
  <2> QED BY <2>1, <2>3, Zenon
<1>12. Len((pchActive \o pchRecovery) \o hrot \o (bmcActive \o bmcRecovery)) \in 0..3
  <2>1. /\ (pchActive \o pchRecovery) \o hrot \in Seq(S)
        /\ Len((pchActive \o pchRecovery) \o hrot) \in 0..2
    <3>1. /\ (pchActive \o pchRecovery) \o hrot \in Seq(S)
          /\ Len((pchActive \o pchRecovery) \o hrot) = Len(pchActive \o pchRecovery) + Len(hrot)
      BY <1>5, <1>6, <1>10
    <3>2. Len(pchActive \o pchRecovery) + Len(hrot) \in 0..2
      <4>1. Len(pchActive \o pchRecovery) \in 0..1 /\ Len(hrot) \in 0..1
        BY <1>6, <1>10, Zenon
      <4>2. \A a, b \in 0..1 : a + b \in 0..2
        OBVIOUS
      <4> QED BY <4>1, <4>2, Zenon
    <3> QED BY <3>1, <3>2, Zenon
  <2>2. Len((pchActive \o pchRecovery) \o hrot \o (bmcActive \o bmcRecovery))
          = Len((pchActive \o pchRecovery) \o hrot) + Len(bmcActive \o bmcRecovery)
    BY <1>5, <1>11, <2>1
  <2> QED BY <1>11, <2>1, <2>2
<1> QED BY <1>2, <1>8, <1>12

-----------------------------------------------------------------------------
(* The steps                                                               *)

\* What the parts of the invariant range over.
LEMMA QuotaType ==
  ASSUME IInv, Counted
  PROVE  /\ Len(evq) \in Nat /\ ao["I2c"].pnc \in {0, 1}
         /\ left.cmd \in Nat /\ left.bmcReset \in Nat /\ left.timeout \in Nat
         /\ MaxCmd \in Nat /\ MaxBmcReset \in Nat /\ MaxTimeout \in Nat
         /\ \A S : Count(evq, S) \in Nat
         /\ \A e \in Chains : /\ Granted(e) \in Nat /\ Unused(e) \in Nat /\ Quota(e) \in Int
                              /\ One(Armed(e)) \in {0, 1} /\ One(Posting(e)) \in {0, 1}
                              /\ One(Posting(e)) <= One(Armed(e))
<1>1. Len(evq) \in Nat
  BY DEF IInv, TypeOK
<1>2. ao["I2c"].pnc \in {0, 1}
  BY DEF IInv, TypeOK, AoData, AOs
<1>3. /\ left.cmd \in Nat /\ left.bmcReset \in Nat /\ left.timeout \in Nat
      /\ MaxCmd \in Nat /\ MaxBmcReset \in Nat /\ MaxTimeout \in Nat
  BY BoundsAssumption DEF IInv, TypeOK
<1>4. \A S : Count(evq, S) \in Nat
  BY <1>1, CountType
<1>5. ASSUME NEW e \in Chains
      PROVE  /\ Granted(e) \in Nat /\ Unused(e) \in Nat /\ Quota(e) \in Int
             /\ One(Armed(e)) \in {0, 1} /\ One(Posting(e)) \in {0, 1}
             /\ One(Posting(e)) <= One(Armed(e))
  <2>1. Granted(e) \in Nat
    <3>1. left.cmd <= MaxCmd /\ left.bmcReset <= MaxBmcReset /\ left.timeout <= MaxTimeout
      BY DEF Counted
    <3>2. MaxCmd - left.cmd \in Nat /\ MaxBmcReset - left.bmcReset \in Nat
          /\ MaxTimeout - left.timeout \in Nat
      BY <1>3, <3>1
    <3>3. CASE e = "Bmc0"
      BY <3>2, <3>3 DEF Granted
    <3>4. CASE e = "Bmc1"
      BY <3>2, <3>4 DEF Granted
    <3>5. CASE e = "Wdt"
      BY <3>2, <3>5 DEF Granted
    <3> QED BY <3>3, <3>4, <3>5 DEF Chains
  <2>2. Unused(e) \in Nat
    BY <1>2, <1>4 DEF Unused
  <2>3. Quota(e) \in Int
    BY <2>1, <2>2 DEF Quota
  <2> QED BY <2>1, <2>2, <2>3 DEF One, Armed
<1> QED BY <1>1, <1>2, <1>3, <1>4, <1>5

\* What is left of the interrupts and commands does not change.
SameUse ==
  left'.cmd = left.cmd /\ left'.bmcReset = left.bmcReset /\ left'.timeout = left.timeout

\* A step that posts nothing and arms nothing.
LEMMA QuietStepL ==
  ASSUME IInv, LInv, evq' = evq, SameUse,
         ao'["I2c"].pnc = ao["I2c"].pnc \/ ao'["I2c"].pnc = 0, ctx'.ev = "Wdt" => ctx.ev = "Wdt",
         \A e \in Chains : (Armed(e)' => Armed(e)) /\ (Posting(e)' => Posting(e))
  PROVE  LInv'
<1>1. Counted'
  BY QuotaType DEF LInv, Counted, SameUse
<1>2. ASSUME NEW e \in Chains PROVE ChainKept(e)'
  <2>1. Granted(e)' = Granted(e)
    BY DEF Granted, SameUse, Chains
  <2>2. Unused(e)' \in Int /\ Unused(e)' <= Unused(e)
    BY QuotaType, SMTT(40) DEF Unused, LInv
  <2>3. /\ Quota(e) \in Int /\ Quota(e)' \in Int /\ Quota(e) <= Quota(e)'
    BY <2>1, <2>2, QuotaType DEF Quota, LInv
  <2>4. One(Armed(e)') <= One(Armed(e)) /\ One(Posting(e)') <= One(Posting(e))
        /\ One(Armed(e)') \in {0, 1} /\ One(Posting(e)') \in {0, 1}
    BY DEF One
  <2>5. Count(evq, Recovers(e)) + One(Armed(e)) <= Quota(e)
    BY DEF LInv, ChainKept
  <2>6. Count(evq', Recovers(e)) + One(Armed(e)') <= Quota(e)'
    BY <2>3, <2>4, <2>5, QuotaType DEF LInv
  <2>7. Fits(evq, e, 2 * Quota(e) - 2 * One(Posting(e)))
    BY DEF LInv, ChainKept
  <2>8. Fits(evq', e, 2 * Quota(e)' - 2 * One(Posting(e)'))
    <3> DEFINE n == 2 * Quota(e) - 2 * One(Posting(e))
               m == 2 * Quota(e)' - 2 * One(Posting(e)')
    <3>0. One(Posting(e)) \in {0, 1} /\ Len(evq) \in Nat
      BY QuotaType DEF LInv
    <3>1. n \in Int /\ m \in Int /\ n <= m
      BY <2>3, <2>4, <3>0
    <3> HIDE DEF n, m
    <3>2. Fits(evq, e, n)
      BY <2>7 DEF n
    <3>3. Fits(evq, e, m)
      BY <3>0, <3>1, <3>2, FitsMore
    <3> QED BY <3>3 DEF m
  <2> QED BY <2>6, <2>8 DEF ChainKept
<1> QED BY <1>1, <1>2 DEF LInv

\* A chain is kept when its queue fits in what is allowed after the step.
LEMMA KeepsChain ==
  ASSUME NEW e \in Chains, Len(evq') \in Nat, Quota(e)' \in Int, NEW n \in Int, Fits(evq', e, n),
         n <= 2 * Quota(e)' - 2 * One(Posting(e)'),
         Count(evq', Recovers(e)) + One(Armed(e)') <= Quota(e)'
  PROVE  ChainKept(e)'
<1> DEFINE m == 2 * Quota(e)' - 2 * One(Posting(e)')
<1>1. m \in Int
  BY DEF One
<1>2. n <= m
  OBVIOUS
<1> HIDE DEF m
<1>3. Fits(evq', e, m)
  BY <1>1, <1>2, FitsMore
<1> QED BY <1>3 DEF ChainKept, m

\* Quota of a step that leaves the interrupts, the mailbox and the updates alone.
LEMMA SameQuota ==
  ASSUME IInv, LInv, SameUse, ao'["I2c"].pnc = ao["I2c"].pnc,
         Count(evq', Updates) = Count(evq, Updates), NEW e \in Chains
  PROVE  Quota(e)' = Quota(e) /\ Quota(e) \in Int
<1>1. Granted(e)' = Granted(e)
  BY DEF Granted, SameUse, Chains
<1>2. Unused(e)' = Unused(e)
  BY DEF Unused
<1> QED BY <1>1, <1>2, QuotaType DEF Quota, LInv

\* The counts a step of that kind keeps.
LEMMA SameCounted ==
  ASSUME IInv, LInv, SameUse, ao'["I2c"].pnc = ao["I2c"].pnc,
         Count(evq', Mails) = Count(evq, Mails), ctx'.ev = "Wdt" => ctx.ev = "Wdt"
  PROVE  Counted'
<1>1. Count(evq', Mails) <= MaxCmd - left'.cmd
  BY DEF LInv, Counted, SameUse
<1> QED BY <1>1 DEF LInv, Counted, SameUse

\* A handler runs only after the boot.
LEMMA HandlerRuns ==
  ASSUME IInv, cur # "IDLE"
  PROVE  evq \in Seq(Matched)
  BY DEF IInv, Booting, Running

\* A failed verification posts its recovery, which it was armed for.
LEMMA VerifyFailsL == ASSUME IInv, IInv', LInv, VerifyFails PROVE LInv'
<1> DEFINE c == ctx.ev
           a == ctx.ao
<1>1. cur = "VERIFY" /\ [state |-> "VERIFY", ao |-> a, ev |-> c] \in Matched /\ pc = "auth"
  BY DEF VerifyFails, IInv, Handling
<1>2. /\ c \in Chains /\ c \in Evs /\ a \in {"Bmc", "Wdt"}
      /\ [state |-> "RECOVERY", ao |-> a, ev |-> c] \in Matched
  BY <1>1 DEF Matched, Chains, Evs
<1>3. evq \in Seq(Matched) /\ Len(evq') \in Nat
  BY <1>1, HandlerRuns DEF IInv, TypeOK
<1>4. ao'["I2c"].pnc = ao["I2c"].pnc /\ SameUse /\ ctx' = ctx /\ pc' = "parent"
  BY <1>2 DEF VerifyFails, SameUse, IInv, TypeOK, AOs
<1>5. \A e \in Chains : ~Posting(e) /\ ~Posting(e)'
  BY <1>1, <1>4 DEF Posting
<1>6. Armed(c)
  BY DEF Armed, VerifyFails
<1>7. CASE evq' = evq /\ ev' = ev
  <2>1. \A e \in Chains : Armed(e)' => Armed(e)
    BY <1>4, <1>5, <1>7 DEF Armed
  <2> QED BY <1>4, <1>5, <1>7, <2>1, QuietStepL
<1>8. CASE /\ ev' = [ev EXCEPT ![c].op = "RECOVER_ACTIVE"]
           /\ evq' = post_smc_action(evq, "RECOVERY", a, c)
  <2>1. /\ Count(evq', Updates) = Count(evq, Updates) /\ Count(evq', Mails) = Count(evq, Mails)
        /\ \A e \in Chains : Count(evq', Recovers(e)) <= Count(evq, Recovers(e)) + One(e = c)
        /\ \A e \in Chains, n \in Int :
             Fits(evq, e, n) /\ (e = c => 2 * Count(evq, Recovers(e)) + 2 <= n) => Fits(evq', e, n)
    BY <1>2, <1>3, <1>8, RecoveryPosted
  <2>2. Counted'
    BY <1>4, <2>1, SameCounted
  <2>3. ASSUME NEW e \in Chains PROVE ChainKept(e)'
    <3>1. Quota(e)' = Quota(e) /\ Quota(e) \in Int
      BY <1>4, <2>1, SameQuota
    <3>2. Count(evq, Recovers(e)) \in Nat /\ Count(evq', Recovers(e)) \in Nat
      BY <1>3, CountType, QuotaType DEF LInv
    <3>3. Count(evq, Recovers(e)) + One(Armed(e)) <= Quota(e) /\ Fits(evq, e, 2 * Quota(e))
      <4>1. One(Posting(e)) = 0
        BY <1>5 DEF One
      <4> QED BY <3>1, <4>1 DEF LInv, ChainKept
    <3>4. One(e = c) + One(Armed(e)') <= One(Armed(e)) /\ One(Armed(e)') \in {0, 1}
      <4>1. CASE e = c
        <5>1. ~Armed(e)'
          BY <1>2, <1>4, <1>5, <1>8, <4>1 DEF Armed, IInv, TypeOK, EventContext
        <5> QED BY <1>6, <4>1, <5>1 DEF One
      <4>2. CASE e # c
        <5>1. Armed(e)' => Armed(e)
          BY <1>2, <1>4, <1>5, <1>8, <4>2 DEF Armed, IInv, TypeOK, Chains, Evs
        <5> QED BY <4>2, <5>1 DEF One
      <4> QED BY <4>1, <4>2
    <3>5. Count(evq', Recovers(e)) + One(Armed(e)') <= Quota(e)'
      <4>1. Count(evq', Recovers(e)) <= Count(evq, Recovers(e)) + One(e = c)
        BY <2>1
      <4>2. One(e = c) \in {0, 1} /\ One(Armed(e)) \in {0, 1}
        BY DEF One
      <4> QED BY <3>1, <3>2, <3>3, <3>4, <4>1, <4>2
    <3>6. e = c => 2 * Count(evq, Recovers(e)) + 2 <= 2 * Quota(e)
      <4>1. e = c => One(Armed(e)) = 1
        BY <1>6 DEF One
      <4> QED BY <3>1, <3>2, <3>3, <4>1
    <3>7. 2 * Quota(e) \in Int
      BY <3>1
    <3>8. Fits(evq', e, 2 * Quota(e))
      BY <2>1, <3>3, <3>6, <3>7
    <3>9. 2 * Quota(e) <= 2 * Quota(e)' - 2 * One(Posting(e)')
      BY <1>5, <3>1 DEF One
    <3> QED BY <1>3, <3>1, <3>5, <3>7, <3>8, <3>9, KeepsChain
  <2> QED BY <2>2, <2>3 DEF LInv
<1> QED BY <1>7, <1>8 DEF VerifyFails

\* A recovery that ends posts at most two verifications, for which its place in
\* the chain was kept.
LEMMA RecoverSucceedsL == ASSUME IInv, IInv', LInv, RecoverSucceeds PROVE LInv'
<1> DEFINE c == ctx.ev
           a == ctx.ao
           once == IF res.status = "Success" THEN evq ELSE post_smc_action(evq, "VERIFY", a, c)
<1>1. cur = "RECOVERY" /\ [state |-> "RECOVERY", ao |-> a, ev |-> c] \in Matched /\ pc = "recover"
  BY DEF RecoverSucceeds, IInv, Handling
<1>2. /\ c \in Chains /\ c \in Evs /\ a \in {"Bmc", "Wdt"}
      /\ [state |-> "VERIFY", ao |-> a, ev |-> c] \in Matched
  BY <1>1 DEF Matched, Chains, Evs
<1>3. evq \in Seq(Matched) /\ Len(evq') \in Nat
  BY <1>1, HandlerRuns DEF IInv, TypeOK
<1>4. ao'["I2c"].pnc = ao["I2c"].pnc /\ SameUse /\ ctx' = ctx /\ pc' = "parent"
  BY <1>2 DEF RecoverSucceeds, SameUse, IInv, TypeOK, AOs
<1>5. \A e \in Chains : (Posting(e) <=> e = c) /\ ~Posting(e)'
  BY <1>1, <1>4 DEF Posting
<1>6. /\ once \in Seq(Matched)
      /\ Count(once, Updates) = Count(evq, Updates) /\ Count(once, Mails) = Count(evq, Mails)
      /\ \A e \in Chains : Count(once, Recovers(e)) = Count(evq, Recovers(e))
      /\ \A e \in Chains, n \in Int : Fits(evq, e, n) => Fits(once, e, n + One(e = c))
  <2>1. CASE once = evq
    <3>1. ASSUME NEW e \in Chains, NEW n \in Int, Fits(evq, e, n)
          PROVE  Fits(evq, e, n + One(e = c))
      <4>1. n + One(e = c) \in Int /\ n <= n + One(e = c) /\ Len(evq) \in Nat
        BY <1>3 DEF One
      <4> QED BY <3>1, <4>1, FitsMore
    <3> HIDE DEF once
    <3> QED BY <1>3, <2>1, <3>1
  <2>2. CASE once = post_smc_action(evq, "VERIFY", a, c)
    <3> HIDE DEF once
    <3> QED BY <1>2, <1>3, <2>2, VerifyPosted
  <2> QED BY <2>1, <2>2
<1>7. evq' = post_smc_action(once, "VERIFY", a, c)
  BY DEF RecoverSucceeds
<1> HIDE DEF once
<1>8. /\ Count(evq', Updates) = Count(evq, Updates) /\ Count(evq', Mails) = Count(evq, Mails)
      /\ \A e \in Chains : Count(evq', Recovers(e)) = Count(evq, Recovers(e))
      /\ \A e \in Chains, n \in Int : Fits(once, e, n) => Fits(evq', e, n + One(e = c))
  BY <1>2, <1>6, <1>7, VerifyPosted
<1>9. Counted'
  BY <1>4, <1>8, SameCounted
<1>10. ASSUME NEW e \in Chains PROVE ChainKept(e)'
  <2>1. Quota(e)' = Quota(e) /\ Quota(e) \in Int
    BY <1>4, <1>8, SameQuota
  <2>2. One(Posting(e)) = One(e = c) /\ One(Posting(e)') = 0 /\ One(e = c) \in {0, 1}
    BY <1>5 DEF One
  <2>3. Fits(evq', e, 2 * Quota(e))
    <3> DEFINE n == 2 * Quota(e) - 2 * One(e = c)
    <3>1. n \in Int /\ n + One(e = c) \in Int /\ n + One(e = c) + One(e = c) = 2 * Quota(e)
      BY <2>1, <2>2
    <3>2. Fits(evq, e, n)
      BY <2>2 DEF LInv, ChainKept
    <3> HIDE DEF n
    <3>3. Fits(once, e, n + One(e = c))
      BY <1>6, <3>1, <3>2
    <3>4. Fits(evq', e, n + One(e = c) + One(e = c))
      BY <1>8, <3>1, <3>3
    <3> QED BY <3>1, <3>4
  <2>4. One(Armed(e)') <= One(Armed(e)) /\ One(Armed(e)') \in {0, 1}
    <3>1. CASE e = c
      BY <1>5, <3>1 DEF Armed, One
    <3>2. CASE e # c
      <4>1. ev'[e] = ev[e]
        BY <1>2, <3>2 DEF RecoverSucceeds, IInv, TypeOK, Chains, Evs
      <4>2. Armed(e)' => Armed(e)
        BY <1>4, <1>5, <4>1 DEF Armed
      <4> QED BY <4>2 DEF One
    <3> QED BY <3>1, <3>2
  <2>5. Count(evq', Recovers(e)) + One(Armed(e)') <= Quota(e)'
    <3>1. Count(evq, Recovers(e)) + One(Armed(e)) <= Quota(e)
      BY DEF LInv, ChainKept
    <3>2. Count(evq, Recovers(e)) \in Nat /\ One(Armed(e)) \in {0, 1}
      BY QuotaType DEF LInv
    <3> QED BY <1>8, <2>1, <2>4, <3>1, <3>2
  <2>6. 2 * Quota(e) \in Int /\ 2 * Quota(e) <= 2 * Quota(e)' - 2 * One(Posting(e)')
    BY <2>1, <2>2
  <2> QED BY <1>3, <2>1, <2>3, <2>5, <2>6, KeepsChain
<1> QED BY <1>9, <1>10 DEF LInv

\* The updates that follow the last one publish the two verifications of the BMC.
LEMMA UpdatePublishL == ASSUME IInv, IInv', LInv, UpdatePublish PROVE LInv'
<1>1. cur = "UPDATE" /\ pc = "publish" /\ pc' = "parent" /\ ctx' = ctx
  BY DEF UpdatePublish, IInv, Handling
<1>2. evq \in Seq(Matched) /\ Len(evq') \in Nat
  BY <1>1, HandlerRuns DEF IInv, TypeOK
<1>3. \A e \in Chains : (Posting(e) <=> e # "Wdt") /\ ~Posting(e)'
  BY <1>1 DEF Posting
<1>4. CASE ~prov
  <2>1. evq' = evq /\ ao' = ao /\ ev' = ev /\ left' = left
    BY <1>4 DEF UpdatePublish, PublishInitialEvents
  <2>2. \A e \in Chains : Armed(e)' => Armed(e)
    BY <1>1, <1>3, <2>1 DEF Armed
  <2> QED BY <1>1, <1>3, <2>1, <2>2, QuietStepL DEF SameUse
<1>5. CASE prov
  <2> DEFINE once == post_smc_action(evq, "VERIFY", "Bmc", "Bmc0")
  <2>1. PublishBmcEvents(evq) /\ check_staging_area
    BY <1>5 DEF UpdatePublish, PublishInitialEvents
  <2>2. ao'["I2c"].pnc = ao["I2c"].pnc /\ SameUse /\ ev'["Wdt"] = ev["Wdt"]
    BY <2>1 DEF PublishBmcEvents, check_staging_area, Spend, SameUse, IInv, TypeOK, AOs, Evs
  <2>3. evq' = post_smc_action(once, "VERIFY", "Bmc", "Bmc1")
    BY <2>1 DEF PublishBmcEvents
  <2>4. /\ [state |-> "VERIFY", ao |-> "Bmc", ev |-> "Bmc0"] \in Matched
        /\ [state |-> "VERIFY", ao |-> "Bmc", ev |-> "Bmc1"] \in Matched
        /\ "Bmc0" \in Chains /\ "Bmc1" \in Chains
    BY DEF Matched, Chains
  <2>5. /\ once \in Seq(Matched)
        /\ Count(once, Updates) = Count(evq, Updates) /\ Count(once, Mails) = Count(evq, Mails)
        /\ \A e \in Chains : Count(once, Recovers(e)) = Count(evq, Recovers(e))
        /\ \A e \in Chains, n \in Int : Fits(evq, e, n) => Fits(once, e, n + One(e = "Bmc0"))
    BY <1>2, <2>4, VerifyPosted
  <2> HIDE DEF once
  <2>6. /\ Count(evq', Updates) = Count(evq, Updates) /\ Count(evq', Mails) = Count(evq, Mails)
        /\ \A e \in Chains : Count(evq', Recovers(e)) = Count(evq, Recovers(e))
        /\ \A e \in Chains, n \in Int : Fits(once, e, n) => Fits(evq', e, n + One(e = "Bmc1"))
    BY <2>3, <2>4, <2>5, VerifyPosted
  <2>7. Counted'
    BY <1>1, <2>2, <2>6, SameCounted
  <2>8. ASSUME NEW e \in Chains PROVE ChainKept(e)'
    <3>1. Quota(e)' = Quota(e) /\ Quota(e) \in Int
      BY <2>2, <2>6, SameQuota
    <3>2. /\ One(Posting(e)') = 0 /\ One(Posting(e)) \in {0, 1}
          /\ One(e = "Bmc0") \in {0, 1} /\ One(e = "Bmc1") \in {0, 1}
          /\ One(e = "Bmc0") + One(e = "Bmc1") = One(Posting(e))
      BY <1>3 DEF One, Chains
    <3> DEFINE n == 2 * Quota(e) - 2 * One(Posting(e))
               m == n + One(e = "Bmc0") + One(e = "Bmc1")
    <3>3. n \in Int /\ n + One(e = "Bmc0") \in Int /\ m \in Int /\ m <= 2 * Quota(e)
      BY <3>1, <3>2
    <3>4. Fits(evq, e, n)
      BY DEF LInv, ChainKept
    <3> HIDE DEF n
    <3>5. Fits(once, e, n + One(e = "Bmc0"))
      BY <2>5, <3>3, <3>4
    <3>6. Fits(evq', e, m)
      BY <2>6, <3>3, <3>5
    <3>7. One(Armed(e)') <= One(Armed(e)) /\ One(Armed(e)') \in {0, 1}
      <4>1. CASE e = "Wdt"
        <5>1. Armed(e)' => Armed(e)
          BY <1>1, <1>3, <2>2, <4>1 DEF Armed
        <5> QED BY <5>1 DEF One
      <4>2. CASE e # "Wdt"
        BY <1>3, <4>2 DEF Armed, One
      <4> QED BY <4>1, <4>2
    <3>8. Count(evq', Recovers(e)) + One(Armed(e)') <= Quota(e)'
      <4>1. Count(evq, Recovers(e)) + One(Armed(e)) <= Quota(e)
        BY DEF LInv, ChainKept
      <4>2. Count(evq, Recovers(e)) \in Nat /\ One(Armed(e)) \in {0, 1}
        BY QuotaType DEF LInv
      <4> QED BY <2>6, <3>1, <3>7, <4>1, <4>2
    <3>9. m <= 2 * Quota(e)' - 2 * One(Posting(e)')
      BY <3>1, <3>2, <3>3
    <3> HIDE DEF m
    <3> QED BY <1>2, <3>1, <3>3, <3>6, <3>8, <3>9, KeepsChain
  <2> QED BY <2>7, <2>8 DEF LInv
<1> QED BY <1>4, <1>5

\* A command that is executed uses what was granted for its three updates.
LEMMA RunI2cL == ASSUME IInv, IInv', LInv, RunI2c PROVE LInv'
<1>1. cur = "I2C" /\ cur' = cur /\ pc = "run" /\ pc' = "parent" /\ ctx' = ctx /\ left' = left
  BY DEF RunI2c
<1>2. evq \in Seq(Matched) /\ Len(evq') \in Nat /\ ctx.ao = "I2c"
  BY <1>1, HandlerRuns DEF IInv, TypeOK, Handling, Matched
<1>3. \A e \in Chains : ~Posting(e) /\ ~Posting(e)'
  BY <1>1 DEF Posting
<1>4. CASE evq' = evq /\ ev' = ev /\ (ao' = ao \/ ao' = [ao EXCEPT !["I2c"].pnc = 0])
  <2>1. \A e \in Chains : Armed(e)' => Armed(e)
    BY <1>1, <1>3, <1>4 DEF Armed
  <2>2. ao'["I2c"].pnc = ao["I2c"].pnc \/ ao'["I2c"].pnc = 0
    BY <1>4 DEF IInv, TypeOK, AOs, AoData
  <2> QED BY <1>1, <1>3, <1>4, <2>1, <2>2, QuietStepL DEF SameUse
<1>5. CASE ao["I2c"].pnc = 1 /\ UpdateIntentHandle(cmd.bits, cmd.source)
  <2> DEFINE n == Len(UpdateEvents(cmd.bits))
  <2>1. n \in 0..3 /\ n \in Nat
    <3>1. n \in 0..3
      BY ThreeUpdates
    <3> HIDE DEF n
    <3> QED BY <3>1
  <2>2. evq' = PublishUpdateEvents(evq, n)
    BY <1>5 DEF UpdateIntentHandle
  <2>3. ao'["I2c"].pnc = 0
    BY <1>5 DEF UpdateIntentHandle, IInv, TypeOK, AOs, AoData
  <2>4. \A e \in Chains : ev'[e] = ev[e]
    BY <1>5 DEF UpdateIntentHandle, IInv, TypeOK, Chains, Evs
  <2> HIDE DEF n
  <2>5. /\ Count(evq', Updates) <= Count(evq, Updates) + n /\ Count(evq', Mails) = Count(evq, Mails)
        /\ \A e \in Chains : Count(evq', Recovers(e)) = Count(evq, Recovers(e))
        /\ \A e \in Chains, d \in Int : Fits(evq, e, d) => Fits(evq', e, d)
    BY <1>2, <2>1, <2>2, UpdatesPosted
  <2>6. Counted'
    <3>1. Count(evq', Mails) <= MaxCmd - left'.cmd
      BY <1>1, <2>5 DEF LInv, Counted
    <3> QED BY <1>1, <2>3, <3>1 DEF LInv, Counted
  <2>7. ASSUME NEW e \in Chains PROVE ChainKept(e)'
    <3>1. Granted(e)' = Granted(e) /\ Granted(e) \in Nat
      BY <1>1, QuotaType DEF Granted, Chains, LInv
    <3>2. Unused(e) \in Nat /\ Unused(e)' \in Nat /\ Unused(e)' <= Unused(e)
      <4>1. Count(evq, Updates) \in Nat /\ Count(evq', Updates) \in Nat
        BY <1>2, CountType, QuotaType DEF LInv
      <4>2. CASE e = "Wdt"
        BY <4>2 DEF Unused
      <4>3. CASE e # "Wdt"
        <5>1. Unused(e) = Count(evq, Updates) + 3 /\ Unused(e)' = Count(evq', Updates)
          BY <1>5, <2>3, <4>1, <4>3 DEF Unused
        <5> QED BY <2>1, <2>5, <4>1, <5>1
      <4> QED BY <4>2, <4>3
    <3>3. Quota(e) \in Int /\ Quota(e)' \in Int /\ Quota(e) <= Quota(e)'
      BY <3>1, <3>2 DEF Quota
    <3>4. One(Posting(e)) = 0 /\ One(Posting(e)') = 0
      BY <1>3 DEF One
    <3>5. 2 * Quota(e) \in Int /\ 2 * Quota(e) <= 2 * Quota(e)' - 2 * One(Posting(e)')
      BY <3>3, <3>4
    <3>6. Fits(evq', e, 2 * Quota(e))
      <4>1. Fits(evq, e, 2 * Quota(e))
        BY <3>3, <3>4 DEF LInv, ChainKept
      <4> QED BY <2>5, <3>5, <4>1
    <3>7. One(Armed(e)') <= One(Armed(e)) /\ One(Armed(e)') \in {0, 1}
      <4>1. Armed(e)' => Armed(e)
        BY <1>1, <1>3, <2>4 DEF Armed
      <4> QED BY <4>1 DEF One
    <3>8. Count(evq', Recovers(e)) + One(Armed(e)') <= Quota(e)'
      <4>1. Count(evq, Recovers(e)) + One(Armed(e)) <= Quota(e)
        BY DEF LInv, ChainKept
      <4>2. Count(evq, Recovers(e)) \in Nat /\ One(Armed(e)) \in {0, 1}
        BY QuotaType DEF LInv
      <4> QED BY <2>5, <3>3, <3>7, <4>1, <4>2
    <3> QED BY <1>2, <3>3, <3>5, <3>6, <3>8, KeepsChain
  <2> QED BY <2>6, <2>7 DEF LInv
<1> QED BY <1>2, <1>4, <1>5 DEF RunI2c

\* A chain of the BMC always has its first place.
LEMMA QuotaOfBmc ==
  ASSUME IInv, Counted, Count(evq, Updates) = 0
  PROVE  /\ \A e \in Chains : e # "Wdt" => Quota(e) >= 1
         /\ Quota("Wdt") = MaxTimeout - left.timeout
<1>1. ASSUME NEW e \in Chains, e # "Wdt" PROVE Quota(e) >= 1
  <2>1. /\ ao["I2c"].pnc \in {0, 1} /\ left.cmd \in Nat /\ MaxCmd \in Nat
        /\ left.bmcReset \in Nat /\ MaxBmcReset \in Nat /\ Granted(e) \in Nat
    BY QuotaType
  <2>2. left.cmd <= MaxCmd /\ (ao["I2c"].pnc = 1 => left.cmd < MaxCmd) /\ left.bmcReset <= MaxBmcReset
    BY DEF Counted
  <2>3. Granted(e) >= 1 + 3 * (MaxCmd - left.cmd)
    BY <1>1, <2>1, <2>2 DEF Granted, Chains
  <2>4. Unused(e) = 3 * ao["I2c"].pnc
    BY <1>1, <2>1 DEF Unused
  <2>5. 3 * (MaxCmd - left.cmd) >= 3 * ao["I2c"].pnc
    BY <2>1, <2>2
  <2> QED BY <2>1, <2>3, <2>4, <2>5 DEF Quota
<1>2. Quota("Wdt") = MaxTimeout - left.timeout
  BY QuotaType DEF Quota, Granted, Unused
<1> QED BY <1>1, <1>2

\* The handler of the current state is called again when the queue is empty.
LEMMA IdleEmptyL == ASSUME IInv, IInv', LInv, IdleEmpty PROVE LInv'
<1>1. evq = <<>> /\ evq' = <<>> /\ ao' = ao /\ ev' = ev /\ left' = left /\ ctx' = ctx /\ pc' = "run"
  BY DEF IdleEmpty
<1>2. /\ \A e \in Chains, n \in Nat : Fits(<<>>, e, n)
      /\ \A S : Count(<<>>, S) = 0
  BY FitsEmpty
<1>3. Counted'
  BY <1>1 DEF LInv, Counted
<1>4. ASSUME NEW e \in Chains PROVE ChainKept(e)'
  <2>1. Quota(e)' = Quota(e) /\ Quota(e) \in Int
    BY <1>1, SameQuota DEF SameUse
  <2>2. CASE Armed(e)'
    <3>1. Quota(e) >= 1
      <4>1. CASE e # "Wdt"
        BY <1>1, <1>2, <4>1, QuotaOfBmc DEF LInv
      <4>2. CASE e = "Wdt" /\ ctx.ev = "Wdt"
        BY <1>1, <1>2, <4>2, QuotaOfBmc, QuotaType DEF LInv, Counted
      <4>3. CASE e = "Wdt" /\ ctx.ev # "Wdt"
        <5>1. Armed(e)
          BY <1>1, <2>2, <4>3 DEF Armed, Posting
        <5> QED BY <1>1, <1>2, <2>1, <5>1 DEF LInv, ChainKept, One
      <4> QED BY <4>1, <4>2, <4>3
    <3>2. 0 <= 2 * Quota(e)' - 2 * One(Posting(e)')
      BY <2>1, <3>1 DEF One
    <3>3. Count(evq', Recovers(e)) + One(Armed(e)') <= Quota(e)'
      BY <1>1, <1>2, <2>1, <3>1 DEF One
    <3> QED BY <1>1, <1>2, <2>1, <3>2, <3>3, KeepsChain
  <2>3. CASE ~Armed(e)'
    <3>1. Quota(e) >= 0
      BY <1>1, <1>2, <2>1 DEF LInv, ChainKept, One
    <3>2. 0 <= 2 * Quota(e)' - 2 * One(Posting(e)')
      BY <2>1, <2>3, <3>1 DEF One, Armed
    <3>3. Count(evq', Recovers(e)) + One(Armed(e)') <= Quota(e)'
      BY <1>1, <1>2, <2>1, <2>3, <3>1 DEF One
    <3> QED BY <1>1, <1>2, <2>1, <3>2, <3>3, KeepsChain
  <2> QED BY <2>2, <2>3
<1> QED BY <1>3, <1>4 DEF LInv

\* Nothing is counted in the queue that main leaves.
LEMMA BootQueue ==
  /\ Len(<<InitialEvent>>) = 1
  /\ \A S : S \subseteq Matched => Count(<<InitialEvent>>, S) = 0
  /\ \A e, n : n \in Nat => Fits(<<InitialEvent>>, e, n)
<1>1. Len(<<InitialEvent>>) = 1 /\ <<InitialEvent>>[1] = InitialEvent
  OBVIOUS
<1>2. InitialEvent \notin Matched
  BY DEF InitialEvent, Matched
<1>3. ASSUME NEW S, S \subseteq Matched, NEW k \in 0..1 PROVE First(<<InitialEvent>>, k, S) = 0
  <2>1. Places(<<InitialEvent>>, k, S) = {}
    BY <1>1, <1>2, <1>3 DEF Places
  <2> QED BY <2>1, FS_EmptySet DEF First
<1>4. \A S : S \subseteq Matched => Count(<<InitialEvent>>, S) = 0
  BY <1>1, <1>3 DEF Count
<1>5. ASSUME NEW e, NEW n \in Nat PROVE Fits(<<InitialEvent>>, e, n)
  <2>1. Verifies(e) \subseteq Matched /\ Recovers(e) \subseteq Matched
    BY DEF Verifies, Recovers, EventsOf
  <2> QED BY <1>1, <1>3, <1>4, <2>1 DEF Fits
<1> QED BY <1>1, <1>4, <1>5

\* What main leaves of the state the chains depend on.
Booted ==
  /\ evq = <<InitialEvent>> /\ cur = "IDLE" /\ pc = "run" /\ ctx = NoContext
  /\ ao = [a \in AOs |-> BlankAO] /\ ev = [e \in Evs |-> BlankEv]
  /\ left.cmd <= MaxCmd /\ left.bmcReset <= MaxBmcReset /\ left.timeout <= MaxTimeout

\* After a boot nothing is armed.
LEMMA BootKept == IInv /\ Booted => LInv
<1> SUFFICES ASSUME IInv, Booted PROVE LInv
  OBVIOUS
<1>1. ao["I2c"].pnc = 0 /\ \A e \in Chains : ~Armed(e) /\ ~Posting(e)
  BY DEF Booted, AOs, BlankAO, BlankEv, Evs, Chains, Armed, Posting
<1>2. /\ Count(evq, Updates) = 0 /\ Count(evq, Mails) = 0
      /\ \A e : Count(evq, Recovers(e)) = 0
  BY BootQueue DEF Booted, Updates, Mails, Recovers, EventsOf
<1>3. Counted
  <2>1. left.cmd \in Nat /\ MaxCmd \in Nat
    BY BoundsAssumption DEF IInv, TypeOK
  <2>2. Count(evq, Mails) <= MaxCmd - left.cmd
    BY <1>2, <2>1 DEF Booted
  <2> QED BY <1>1, <2>2 DEF Booted, Counted, NoContext
<1>4. ASSUME NEW e \in Chains PROVE ChainKept(e)
  <2>1. Quota(e) \in Nat
    BY <1>1, <1>2, <1>3, QuotaType DEF Quota, Unused
  <2>2. One(Armed(e)) = 0 /\ One(Posting(e)) = 0
    BY <1>1 DEF One
  <2>3. Fits(evq, e, 2 * Quota(e) - 2 * One(Posting(e)))
    <3>1. 2 * Quota(e) - 2 * One(Posting(e)) \in Nat
      BY <2>1, <2>2
    <3> QED BY <3>1, BootQueue DEF Booted
  <2> QED BY <1>2, <2>1, <2>2, <2>3 DEF ChainKept
<1> QED BY <1>3, <1>4 DEF LInv

\* A restart of the HRoT empties the queue and the objects.
LEMMA RebootL == ASSUME IInv', LInv, Reboot, SameUse PROVE LInv'
<1>1. left'.cmd <= MaxCmd /\ left'.bmcReset <= MaxBmcReset /\ left'.timeout <= MaxTimeout
  BY DEF LInv, Counted, SameUse
<1>2. Booted'
  BY <1>1 DEF Booted, Reboot
<1>3. (IInv /\ Booted => LInv)'
  BY BootKept, PTL
<1> QED BY <1>2, <1>3

\* The chains are kept when the state machine starts.
LEMMA InitL == Init => LInv
<1> SUFFICES ASSUME Init PROVE LInv
  OBVIOUS
<1>1. IInv
  BY InitStep
<1>2. Booted
  BY BoundsAssumption DEF Init, Boot, Booted
<1> QED BY <1>1, <1>2, BootKept

\* A finished HRoT update restarts.
LEMMA UpdateRebootL == ASSUME IInv', LInv, UpdateReboot PROVE LInv'
<1>1. Reboot /\ SameUse
  BY DEF UpdateReboot, SameUse
<1> QED BY <1>1, RebootL

\* So does a reset.
LEMMA ResetL == ASSUME IInv, IInv', LInv, Reset PROVE LInv'
<1>1. Reboot /\ SameUse
  BY DEF Reset, SameUse, IInv, TypeOK
<1> QED BY <1>1, RebootL

\* An authentication that fails is one of an armed context: any operation but the
\* two verifications reports Success.
LEMMA VerifyBeginL == ASSUME IInv, LInv, VerifyBegin PROVE LInv'
<1>1. evq' = evq /\ ao' = ao /\ ev' = ev /\ ctx' = ctx /\ cur = "VERIFY" /\ cur' = cur /\ SameUse
  BY DEF VerifyBegin, SameUse
<1>2. \A e \in Chains : ~Posting(e) /\ ~Posting(e)'
  BY <1>1 DEF Posting
<1>3. pc' = "parent" \/ (pc' = "auth" /\ res' = authentication_image(ctx.ev))
  BY DEF VerifyBegin
<1>4. res' = authentication_image(ctx.ev) /\ res'.status = "Failure"
        => ev[ctx.ev].op \in {"VERIFY_ACTIVE", "VERIFY_BACKUP"}
  BY DEF authentication_image, Untouched, Outcome
<1>5. \A e \in Chains : Armed(e)' => Armed(e)
  BY <1>1, <1>2, <1>3, <1>4 DEF Armed
<1> QED BY <1>1, <1>2, <1>5, QuietStepL

\* A verification that succeeds arms nothing.
LEMMA VerifySucceedsL == ASSUME IInv, LInv, VerifySucceeds PROVE LInv'
<1>1. evq' = evq /\ ev' = ev /\ ctx' = ctx /\ cur' = cur /\ SameUse /\ pc' = "parent"
  BY DEF VerifySucceeds, SameUse
<1>2. cur = "VERIFY" /\ ctx.ao \in {"Bmc", "Wdt"}
  BY DEF VerifySucceeds, IInv, Handling, Matched
<1>3. ao'["I2c"].pnc = ao["I2c"].pnc
  BY <1>2 DEF VerifySucceeds, IInv, TypeOK, AOs
<1>4. \A e \in Chains : ~Posting(e) /\ ~Posting(e)'
  BY <1>1, <1>2 DEF Posting
<1>5. \A e \in Chains : Armed(e)' => Armed(e)
  BY <1>1, <1>4 DEF Armed
<1> QED BY <1>1, <1>3, <1>4, <1>5, QuietStepL

\* The flash work of a recovery begins.
LEMMA RecoverBeginL == ASSUME IInv, LInv, RecoverBegin PROVE LInv'
<1>1. /\ evq' = evq /\ ao' = ao /\ ev' = ev /\ ctx' = ctx /\ cur = "RECOVERY" /\ cur' = cur
      /\ pc = "run" /\ pc' = "recover"
  BY DEF RecoverBegin
<1>2. SameUse
  BY DEF RecoverBegin, SameUse, Spend, IInv, TypeOK
<1>3. \A e \in Chains : (Armed(e)' => Armed(e)) /\ (Posting(e)' => Posting(e))
  BY <1>1 DEF Armed, Posting
<1> QED BY <1>1, <1>2, <1>3, QuietStepL

\* A recovery that fails posts nothing and gives its place up.
LEMMA RecoverFailsL == ASSUME IInv, LInv, RecoverFails PROVE LInv'
<1>1. evq' = evq /\ ev' = ev /\ left' = left /\ SameUse
  BY DEF RecoverFails, SameUse
<1>2. cur = "RECOVERY" /\ ctx.ao \in {"Bmc", "Wdt"} /\ ctx.ao \in AOs
  BY DEF RecoverFails, IInv, Handling, Matched, AOs
<1>3. ao'["I2c"].pnc = ao["I2c"].pnc
  BY <1>2 DEF RecoverFails, IInv, TypeOK, AOs
<1>4. \/ cur' = "LOCKDOWN" /\ pc' = "run" /\ ctx'.ev = "NULL"
      \/ cur' = cur /\ pc' = "parent" /\ ctx' = ctx
  BY DEF RecoverFails, IInv, TypeOK
<1>5. \A e \in Chains : ~Posting(e)'
  BY <1>4 DEF Posting
<1>6. \A e \in Chains : Armed(e)' => Armed(e)
  BY <1>1, <1>4, <1>5 DEF Armed
<1> QED BY <1>1, <1>3, <1>4, <1>5, <1>6, QuietStepL

\* The flash work of an update begins.
LEMMA UpdateBeginL == ASSUME IInv, LInv, UpdateBegin PROVE LInv'
<1>1. /\ evq' = evq /\ ao' = ao /\ ev' = ev /\ ctx' = ctx /\ cur = "UPDATE" /\ cur' = cur
      /\ pc = "run" /\ pc' = "update"
  BY DEF UpdateBegin
<1>2. SameUse
  BY DEF UpdateBegin, SameUse, Spend, IInv, TypeOK
<1>3. \A e \in Chains : (Armed(e)' => Armed(e)) /\ (Posting(e)' => Posting(e))
  BY <1>1 DEF Armed, Posting
<1> QED BY <1>1, <1>2, <1>3, QuietStepL

\* It ends, and the initial events are still to be published.
LEMMA UpdateEndL == ASSUME IInv, LInv, UpdateEnd PROVE LInv'
<1>1. /\ evq' = evq /\ ev' = ev /\ ctx' = ctx /\ cur' = cur /\ SameUse
      /\ pc = "update" /\ pc' = "publish"
  BY DEF UpdateEnd, SameUse
<1>2. cur = "UPDATE" /\ ctx.ao = "Update"
  BY <1>1 DEF IInv, Handling, Matched
<1>3. ao'["I2c"].pnc = ao["I2c"].pnc
  BY <1>2 DEF UpdateEnd, IInv, TypeOK, AOs
<1>4. \A e \in Chains : (Armed(e)' => Armed(e)) /\ (Posting(e)' => Posting(e))
  BY <1>1, <1>2 DEF Armed, Posting
<1> QED BY <1>1, <1>3, <1>4, QuietStepL

\* The lockdown handler leaves the queue and the contexts alone.
LEMMA RunLockdownL == ASSUME IInv, LInv, RunLockdown PROVE LInv'
<1>1. evq' = evq /\ ev' = ev /\ ctx' = ctx /\ cur' = cur /\ pc' = pc /\ SameUse /\ res' = res
  BY DEF RunLockdown, SameUse
<1>2. ao'["I2c"].pnc = ao["I2c"].pnc
  BY DEF RunLockdown, IInv, TypeOK, AOs, AoData
<1>3. \A e \in Chains : (Armed(e)' => Armed(e)) /\ (Posting(e)' => Posting(e))
  BY <1>1 DEF Armed, Posting
<1> QED BY <1>1, <1>2, <1>3, QuietStepL

\* So does software that damages its flash.
LEMMA CorruptL == ASSUME IInv, LInv, NEW i, NEW r, Corrupt(i, r) PROVE LInv'
<1>1. evq' = evq /\ ev' = ev /\ ao' = ao /\ ctx' = ctx /\ cur' = cur /\ pc' = pc /\ res' = res
  BY DEF Corrupt
<1>2. SameUse
  BY DEF Corrupt, SameUse, IInv, TypeOK
<1>3. \A e \in Chains : (Armed(e)' => Armed(e)) /\ (Posting(e)' => Posting(e))
  BY <1>1 DEF Armed, Posting
<1> QED BY <1>1, <1>2, <1>3, QuietStepL

\* And a step that changes nothing.
LEMMA StutterL == ASSUME IInv, LInv, UNCHANGED vars PROVE LInv'
<1>1. \A e \in Chains : (Armed(e)' => Armed(e)) /\ (Posting(e)' => Posting(e))
  BY DEF Armed, Posting, vars
<1>2. evq' = evq /\ SameUse /\ ao' = ao /\ ctx' = ctx
  BY DEF vars, SameUse
<1> QED BY <1>1, <1>2, QuietStepL

\* Between two handlers nothing is posted, and only a waiting verification is
\* armed.
LEMMA BetweenHandlers ==
  ASSUME IInv, AtIdle
  PROVE  \A e \in Chains : /\ ~Posting(e)
                           /\ Armed(e) <=> ev[e].op \in {"VERIFY_ACTIVE", "VERIFY_BACKUP"}
  BY DEF AtIdle, Posting, Armed

\* The event taken from the queue hands its place in the chain to its handler; an
\* update hands over one of those granted to its command.
LEMMA IdleDispatchL == ASSUME IInv, IInv', LInv, IdleDispatch PROVE LInv'
<1> DEFINE h == Head(evq)
           r(e) == One(h \in Recovers(e))
           u(e) == One(h \in Updates /\ e # "Wdt")
<1>1. /\ AtIdle /\ evq # <<>> /\ h.state # "INITIALIZE" /\ pc' = "run" /\ cur' = h.state
      /\ ctx' = [ao |-> h.ao, ev |-> h.ev] /\ evq' = Tail(evq) /\ ao' = ao /\ ev' = ev
      /\ left' = left
  BY DEF IdleDispatch
<1>2. evq \in Seq(Matched) /\ Len(evq') \in Nat
  <2>1. Head(<<InitialEvent>>).state = "INITIALIZE"
    BY DEF InitialEvent
  <2> QED BY <1>1, <2>1 DEF IInv, Booting, Running, TypeOK
<1>3. h \in Matched
  BY <1>1, <1>2
<1> HIDE DEF h
<1>4. /\ \A S : Count(evq', S) = Count(evq, S) - One(h \in S)
      /\ \A S : Count(evq, S) \in Nat /\ Count(evq', S) \in Nat /\ One(h \in S) \in {0, 1}
  <2>1. ASSUME NEW S
        PROVE  /\ Count(evq', S) = Count(evq, S) - One(h \in S)
               /\ Count(evq, S) \in Nat /\ Count(evq', S) \in Nat
    <3>1. Count(Tail(evq), S) = Count(evq, S) - One(Head(evq) \in S)
      BY <1>1, <1>2, CountTail
    <3>2. Count(evq, S) \in Nat /\ Count(evq', S) \in Nat
      BY <1>2, CountType
    <3> QED BY <1>1, <3>1, <3>2 DEF h
  <2>2. \A S : One(h \in S) \in {0, 1}
    BY DEF One
  <2> QED BY <2>1, <2>2
<1>5. ASSUME NEW e \in Chains, NEW n \in Int, Fits(evq, e, n) PROVE Fits(evq', e, n - 2 * r(e))
  BY <1>1, <1>2, <1>5, FitsTail DEF h
<1>6. ASSUME NEW e \in Chains
      PROVE  /\ r(e) \in {0, 1} /\ u(e) \in {0, 1} /\ One(Posting(e)') = r(e) + u(e)
             /\ One(Armed(e)) \in {0, 1} /\ One(Armed(e)') \in {0, 1}
             /\ One(Armed(e)') <= One(Armed(e)) + r(e) + u(e) /\ One(Posting(e)) = 0
  <2>1. Posting(e)' <=> h \in Recovers(e) \/ (h \in Updates /\ e # "Wdt")
    BY <1>1, <1>3 DEF Posting, Recovers, Updates, EventsOf, Matched
  <2>2. ~(h \in Recovers(e) /\ h \in Updates)
    BY DEF Recovers, Updates, EventsOf
  <2>3. ~Posting(e) /\ (Armed(e)' => Armed(e) \/ Posting(e)')
    BY <1>1, BetweenHandlers DEF Armed
  <2> QED BY <2>1, <2>2, <2>3 DEF One
<1>7. ASSUME NEW e \in Chains
      PROVE  Quota(e) \in Int /\ Quota(e)' = Quota(e) + u(e)
  <2>1. Granted(e)' = Granted(e) /\ Granted(e) \in Nat /\ Unused(e) \in Nat /\ ao["I2c"].pnc \in {0, 1}
    BY <1>1, QuotaType DEF Granted, Chains, LInv
  <2>2. Unused(e)' = Unused(e) - u(e)
    <3>1. CASE e = "Wdt"
      BY <3>1 DEF Unused, One
    <3>2. CASE e # "Wdt"
      <4>1. u(e) = One(h \in Updates)
        BY <3>2 DEF One
      <4>2. Count(evq', Updates) = Count(evq, Updates) - u(e) /\ u(e) \in {0, 1} /\ Count(evq, Updates) \in Nat
        BY <1>4, <4>1
      <4>3. /\ Unused(e) = Count(evq, Updates) + 3 * ao["I2c"].pnc
            /\ Unused(e)' = Count(evq', Updates) + 3 * ao["I2c"].pnc
        BY <1>1, <3>2 DEF Unused
      <4> HIDE DEF u
      <4> QED BY <2>1, <4>2, <4>3
    <3> QED BY <3>1, <3>2
  <2>3. u(e) \in {0, 1}
    BY DEF One
  <2> HIDE DEF u
  <2> QED BY <2>1, <2>2, <2>3 DEF Quota
<1>8. Counted'
  <2>1. Count(evq', Mails) <= MaxCmd - left'.cmd
    BY <1>1, <1>4, QuotaType, SMTT(40) DEF LInv, Counted
  <2>2. ASSUME h.ev = "Wdt" PROVE left.timeout < MaxTimeout
    <3>1. "Wdt" \in Chains /\ (h \in Verifies("Wdt") \/ h \in Recovers("Wdt"))
      BY <1>3, <2>2 DEF Verifies, Recovers, EventsOf, Matched, Chains
    <3>2. Count(evq, Verifies("Wdt")) >= 1 \/ Count(evq, Recovers("Wdt")) >= 1
      <4>1. \A S : h \in S => Count(evq, S) >= 1
        <5> SUFFICES ASSUME NEW S, h \in S PROVE Count(evq, S) >= 1
          OBVIOUS
        <5>1. One(h \in S) = 1
          BY DEF One
        <5> QED BY <1>4, <5>1
      <4> QED BY <3>1, <4>1
    <3>3. Fits(evq, "Wdt", 2 * Quota("Wdt")) /\ 2 * Quota("Wdt") \in Int /\ Quota("Wdt") \in Int
      <4>1. One(Posting("Wdt")) = 0 /\ Quota("Wdt") \in Int
        BY <1>6, <1>7, <3>1
      <4>2. 2 * Quota("Wdt") - 2 * 0 = 2 * Quota("Wdt") /\ 2 * Quota("Wdt") \in Int
        BY <4>1
      <4>3. Fits(evq, "Wdt", 2 * Quota("Wdt") - 2 * 0)
        BY <3>1, <4>1 DEF LInv, ChainKept
      <4> QED BY <4>1, <4>2, <4>3
    <3>4. /\ Count(evq, Verifies("Wdt")) <= 2 * Quota("Wdt")
          /\ 2 * Count(evq, Recovers("Wdt")) <= 2 * Quota("Wdt")
      BY <1>2, <3>3, FitsBounds
    <3>5. Quota("Wdt") >= 1
      BY <1>4, <3>2, <3>3, <3>4
    <3>6. Quota("Wdt") = MaxTimeout - left.timeout
      BY QuotaType DEF Quota, Granted, Unused, LInv
    <3> QED BY <3>5, <3>6, QuotaType DEF LInv
  <2> QED BY <1>1, <2>1, <2>2 DEF LInv, Counted
<1>9. ASSUME NEW e \in Chains PROVE ChainKept(e)'
  <2> DEFINE n == 2 * Quota(e)
  <2>1. /\ r(e) \in {0, 1} /\ u(e) \in {0, 1} /\ One(Posting(e)') = r(e) + u(e)
        /\ One(Armed(e)) \in {0, 1} /\ One(Armed(e)') \in {0, 1}
        /\ One(Armed(e)') <= One(Armed(e)) + r(e) + u(e) /\ One(Posting(e)) = 0
    BY <1>6
  <2>2. Quota(e) \in Int /\ Quota(e)' = Quota(e) + u(e)
    BY <1>7
  <2>3. Count(evq', Recovers(e)) = Count(evq, Recovers(e)) - r(e) /\ Count(evq, Recovers(e)) \in Nat
    BY <1>4
  <2>4. Count(evq, Recovers(e)) + One(Armed(e)) <= Quota(e)
    BY DEF LInv, ChainKept
  <2>5. Fits(evq, e, 2 * Quota(e) - 2 * One(Posting(e)))
    BY DEF LInv, ChainKept
  <2>6. 2 * Quota(e) - 2 * One(Posting(e)) = n /\ n \in Int
    BY <2>1, <2>2
  <2> HIDE DEF r, u, n
  <2>7. Fits(evq', e, n - 2 * r(e))
    <3>1. Fits(evq, e, n)
      BY <2>5, <2>6
    <3> QED BY <1>5, <2>6, <3>1 DEF r
  <2>8. /\ n - 2 * r(e) \in Int /\ Quota(e)' \in Int
        /\ n - 2 * r(e) <= 2 * Quota(e)' - 2 * One(Posting(e)')
        /\ Count(evq', Recovers(e)) + One(Armed(e)') <= Quota(e)'
    BY <2>1, <2>2, <2>3, <2>4 DEF n
  <2> QED BY <1>2, <2>7, <2>8, KeepsChain
<1> QED BY <1>8, <1>9 DEF LInv

\* The first verifications of the BMC use the place each of its chains has from
\* the start.
LEMMA IdleInitializeL == ASSUME IInv, IInv', LInv, IdleInitialize PROVE LInv'
<1>1. /\ AtIdle /\ evq # <<>> /\ Head(evq).state = "INITIALIZE" /\ pc' = "run" /\ ctx' = NoContext
      /\ cur' = cur /\ PublishInitialEvents(Tail(evq))
  BY DEF IdleInitialize
<1>2. Booting
  <2>1. evq \in Seq(Matched) => Head(evq) \in Matched
    BY <1>1
  <2>2. \A x \in Matched : x.state # "INITIALIZE"
    BY DEF Matched
  <2> QED BY <1>1, <2>1, <2>2 DEF IInv, Running
<1>3. evq = <<InitialEvent>> /\ Tail(evq) = <<>> /\ cur' = "IDLE" /\ Len(evq') \in Nat
  <2>1. Tail(<<InitialEvent>>) = <<>>
    OBVIOUS
  <2> QED BY <1>1, <1>2, <2>1 DEF Booting, IInv, TypeOK
<1>4. /\ Count(evq, Updates) = 0 /\ Count(evq, Mails) = 0
      /\ \A e : Count(evq, Recovers(e)) = 0
  BY <1>3, BootQueue DEF Updates, Mails, Recovers, EventsOf
<1>5. \A e \in Chains, n \in Nat : Fits(<<>>, e, n) /\ \A S : Count(<<>>, S) = 0
  BY FitsEmpty
<1>6. /\ ao'["I2c"].pnc = ao["I2c"].pnc /\ SameUse /\ ev'["Wdt"] = ev["Wdt"]
  BY <1>1 DEF PublishInitialEvents, PublishBmcEvents, check_staging_area, Spend, SameUse,
              IInv, TypeOK, AOs, Evs
<1>7. /\ Count(evq', Updates) = 0 /\ Count(evq', Mails) = 0
      /\ \A e \in Chains : /\ Count(evq', Recovers(e)) = 0
                           /\ Fits(evq', e, One(e = "Bmc0") + One(e = "Bmc1"))
  <2>0. ASSUME NEW e \in Chains
        PROVE  /\ One(e = "Bmc0") + One(e = "Bmc1") \in Nat /\ One(e = "Bmc0") \in Int
               /\ 0 + One(e = "Bmc0") = One(e = "Bmc0")
    BY DEF One
  <2>1. CASE ~prov
    <3>1. evq' = <<>>
      BY <1>1, <1>3, <2>1 DEF PublishInitialEvents
    <3> QED BY <1>5, <2>0, <3>1 DEF Chains
  <2>2. CASE prov
    <3> DEFINE once == post_smc_action(<<>>, "VERIFY", "Bmc", "Bmc0")
    <3>1. evq' = post_smc_action(once, "VERIFY", "Bmc", "Bmc1")
      BY <1>1, <1>3, <2>2 DEF PublishInitialEvents, PublishBmcEvents
    <3>2. /\ [state |-> "VERIFY", ao |-> "Bmc", ev |-> "Bmc0"] \in Matched
          /\ [state |-> "VERIFY", ao |-> "Bmc", ev |-> "Bmc1"] \in Matched
          /\ "Bmc0" \in Chains /\ "Bmc1" \in Chains /\ <<>> \in Seq(Matched)
      BY DEF Matched, Chains
    <3>3. /\ once \in Seq(Matched)
          /\ Count(once, Updates) = Count(<<>>, Updates) /\ Count(once, Mails) = Count(<<>>, Mails)
          /\ \A e \in Chains : Count(once, Recovers(e)) = Count(<<>>, Recovers(e))
          /\ \A e \in Chains, n \in Int : Fits(<<>>, e, n) => Fits(once, e, n + One(e = "Bmc0"))
      BY <3>2, VerifyPosted
    <3> HIDE DEF once
    <3>4. /\ Count(evq', Updates) = Count(once, Updates) /\ Count(evq', Mails) = Count(once, Mails)
          /\ \A e \in Chains : Count(evq', Recovers(e)) = Count(once, Recovers(e))
          /\ \A e \in Chains, n \in Int : Fits(once, e, n) => Fits(evq', e, n + One(e = "Bmc1"))
      BY <3>1, <3>2, <3>3, VerifyPosted
    <3>5. ASSUME NEW e \in Chains PROVE Fits(evq', e, One(e = "Bmc0") + One(e = "Bmc1"))
      <4>1. Fits(<<>>, e, 0)
        BY <1>5
      <4>2. Fits(once, e, 0 + One(e = "Bmc0"))
        BY <3>3, <4>1
      <4> QED BY <2>0, <3>4, <4>2
    <3>6. \A S : Count(<<>>, S) = 0
      BY <1>5, <3>2
    <3> QED BY <3>3, <3>4, <3>5, <3>6
  <2> QED BY <2>1, <2>2
<1>8. Counted'
  BY <1>1, <1>4, <1>6, <1>7, SameCounted DEF NoContext
<1>9. ASSUME NEW e \in Chains PROVE ChainKept(e)'
  <2> DEFINE n == One(e = "Bmc0") + One(e = "Bmc1")
  <2>1. Quota(e)' = Quota(e) /\ Quota(e) \in Int
    BY <1>4, <1>6, <1>7, SameQuota
  <2>2. One(Posting(e)') = 0
    BY <1>1, <1>3 DEF Posting, One
  <2>3. Quota(e) >= One(Armed(e)') /\ 2 * Quota(e) >= n
    <3>1. CASE e # "Wdt"
      <4>1. Quota(e) >= 1
        BY <1>4, <3>1, QuotaOfBmc DEF LInv
      <4> QED BY <2>1, <4>1 DEF One
    <3>2. CASE e = "Wdt"
      <4>1. Armed(e)' => Armed(e)
        BY <1>1, <1>3, <1>6, <3>2 DEF Armed, Posting
      <4>2. 0 + One(Armed(e)) <= Quota(e)
        BY <1>4 DEF LInv, ChainKept
      <4>3. n = 0
        BY <3>2 DEF One
      <4> QED BY <2>1, <4>1, <4>2, <4>3 DEF One
    <3> QED BY <3>1, <3>2
  <2>4. n \in Int
    BY DEF One
  <2>5. Fits(evq', e, n)
    BY <1>7
  <2> HIDE DEF n
  <2>6. n <= 2 * Quota(e)' - 2 * One(Posting(e)')
    BY <2>1, <2>2, <2>3, <2>4
  <2>7. Count(evq', Recovers(e)) + One(Armed(e)') <= Quota(e)'
    BY <1>7, <2>1, <2>3 DEF One
  <2> QED BY <1>3, <2>1, <2>4, <2>5, <2>6, <2>7, KeepsChain
<1> QED BY <1>8, <1>9 DEF LInv

\* A reset of the BMC brings a place in the chain of its active image.
LEMMA BmcResetL == ASSUME IInv, IInv', LInv, BmcReset PROVE LInv'
<1> DEFINE b(e) == One(e = "Bmc1")
<1>1. /\ monitor /\ left.bmcReset > 0 /\ left' = [left EXCEPT !.bmcReset = @ - 1]
      /\ evq' = post_smc_action(evq, "VERIFY", "Bmc", "Bmc1")
      /\ pc' = pc /\ cur' = cur /\ ctx' = ctx /\ res' = res
  BY DEF BmcReset
<1>2. evq \in Seq(Matched) /\ Len(evq') \in Nat
  BY <1>1 DEF IInv, Booting, Running, TypeOK
<1>3. /\ ao'["I2c"].pnc = ao["I2c"].pnc
      /\ \A e \in Chains : e # "Bmc1" => ev'[e] = ev[e]
  BY DEF BmcReset, IInv, TypeOK, AOs, Evs, Chains
<1>4. /\ left'.cmd = left.cmd /\ left'.timeout = left.timeout
      /\ left'.bmcReset = left.bmcReset - 1 /\ left.bmcReset \in Nat /\ MaxBmcReset \in Nat
  BY <1>1, BoundsAssumption DEF IInv, TypeOK
<1>5. [state |-> "VERIFY", ao |-> "Bmc", ev |-> "Bmc1"] \in Matched /\ "Bmc1" \in Chains
  BY DEF Matched, Chains
<1>6. /\ Count(evq', Updates) = Count(evq, Updates) /\ Count(evq', Mails) = Count(evq, Mails)
      /\ \A e \in Chains : Count(evq', Recovers(e)) = Count(evq, Recovers(e))
      /\ \A e \in Chains, n \in Int : Fits(evq, e, n) => Fits(evq', e, n + b(e))
  BY <1>1, <1>2, <1>5, VerifyPosted
<1>7. Counted'
  <2>1. Count(evq', Mails) <= MaxCmd - left'.cmd
    BY <1>4, <1>6 DEF LInv, Counted
  <2>2. left'.bmcReset <= MaxBmcReset
    BY <1>4 DEF LInv, Counted
  <2> QED BY <1>1, <1>3, <1>4, <2>1, <2>2 DEF LInv, Counted
<1>8. ASSUME NEW e \in Chains PROVE ChainKept(e)'
  <2> DEFINE n == 2 * Quota(e) - 2 * One(Posting(e))
  <2>1. Quota(e) \in Int /\ Quota(e)' = Quota(e) + b(e)
    <3>1. Granted(e)' = Granted(e) + b(e)
      <4>1. CASE e = "Bmc1"
        <5>1. /\ Granted(e) = 1 + 3 * (MaxCmd - left.cmd) + (MaxBmcReset - left.bmcReset)
              /\ Granted(e)' = 1 + 3 * (MaxCmd - left'.cmd) + (MaxBmcReset - left'.bmcReset)
          BY <4>1 DEF Granted
        <5>2. left.cmd \in Nat /\ MaxCmd \in Nat
          BY QuotaType DEF LInv
        <5>3. b(e) = 1
          BY <4>1 DEF One
        <5> HIDE DEF b
        <5> QED BY <1>4, <5>1, <5>2, <5>3
      <4>2. CASE e # "Bmc1"
        <5>1. Granted(e)' = Granted(e) /\ Granted(e) \in Nat
          BY <1>4, <4>2, QuotaType DEF Granted, Chains, LInv
        <5> QED BY <4>2, <5>1 DEF One
      <4> QED BY <4>1, <4>2
    <3>2. Unused(e)' = Unused(e)
      BY <1>3, <1>6 DEF Unused
    <3>3. Granted(e) \in Nat /\ Unused(e) \in Nat /\ b(e) \in {0, 1}
      BY QuotaType DEF One, LInv
    <3> HIDE DEF b
    <3> QED BY <3>1, <3>2, <3>3 DEF Quota
  <2>2. /\ One(Posting(e)') = One(Posting(e)) /\ One(Posting(e)) \in {0, 1}
        /\ One(Armed(e)) \in {0, 1} /\ One(Armed(e)') \in {0, 1} /\ b(e) \in {0, 1}
        /\ One(Armed(e)') <= One(Armed(e)) + b(e)
    <3>1. Posting(e)' <=> Posting(e)
      BY <1>1 DEF Posting
    <3>2. Armed(e)' => Armed(e) \/ e = "Bmc1"
      BY <1>1, <1>3, <3>1 DEF Armed
    <3> QED BY <3>1, <3>2 DEF One
  <2>3. n \in Int
    BY <2>1, <2>2
  <2>4. Fits(evq, e, n)
    BY DEF LInv, ChainKept
  <2>5. Count(evq, Recovers(e)) + One(Armed(e)) <= Quota(e) /\ Count(evq, Recovers(e)) \in Nat
    BY QuotaType DEF LInv, ChainKept
  <2> HIDE DEF n, b
  <2>6. Fits(evq', e, n + b(e))
    BY <1>6, <2>3, <2>4 DEF b
  <2>7. /\ n + b(e) \in Int /\ Quota(e)' \in Int
        /\ n + b(e) <= 2 * Quota(e)' - 2 * One(Posting(e)')
        /\ Count(evq', Recovers(e)) + One(Armed(e)') <= Quota(e)'
    BY <1>6, <2>1, <2>2, <2>5 DEF n
  <2> QED BY <1>2, <2>6, <2>7, KeepsChain
<1> QED BY <1>7, <1>8 DEF LInv

\* An expiry brings a place in the chain of the watchdogs, which its recovery takes.
LEMMA WdtTimeoutL ==
  ASSUME IInv, IInv', LInv, NEW i \in Images, WdtTimeout(i) PROVE LInv'
<1> DEFINE b(e) == One(e = "Wdt")
<1>1. /\ wdt[i] /\ left.timeout > 0 /\ left' = [left EXCEPT !.timeout = @ - 1]
      /\ evq' = post_smc_action(evq, "RECOVERY", "Wdt", "Wdt")
      /\ pc' = pc /\ cur' = cur /\ ctx' = ctx /\ res' = res
  BY DEF WdtTimeout
<1>2. evq \in Seq(Matched) /\ Len(evq') \in Nat
  BY <1>1 DEF IInv, Booting, Running, TypeOK
<1>3. /\ ao'["I2c"].pnc = ao["I2c"].pnc
      /\ \A e \in Chains : e # "Wdt" => ev'[e] = ev[e]
      /\ ev'["Wdt"].op = "RECOVER_ACTIVE"
  BY DEF WdtTimeout, IInv, TypeOK, AOs, Evs, Chains, EventContext
<1>4. /\ left'.cmd = left.cmd /\ left'.bmcReset = left.bmcReset
      /\ left'.timeout = left.timeout - 1 /\ left.timeout \in Nat /\ MaxTimeout \in Nat
  BY <1>1, BoundsAssumption DEF IInv, TypeOK
<1>5. [state |-> "RECOVERY", ao |-> "Wdt", ev |-> "Wdt"] \in Matched /\ "Wdt" \in Chains
  BY DEF Matched, Chains
<1>6. /\ Count(evq', Updates) = Count(evq, Updates) /\ Count(evq', Mails) = Count(evq, Mails)
      /\ \A e \in Chains : Count(evq', Recovers(e)) <= Count(evq, Recovers(e)) + b(e)
      /\ \A e \in Chains, n \in Int :
           Fits(evq, e, n) /\ (e = "Wdt" => 2 * Count(evq, Recovers(e)) + 2 <= n) => Fits(evq', e, n)
  BY <1>1, <1>2, <1>5, RecoveryPosted
<1>7. Counted'
  <2>1. Count(evq', Mails) <= MaxCmd - left'.cmd
    BY <1>4, <1>6 DEF LInv, Counted
  <2>2. left'.timeout < MaxTimeout
    BY <1>4 DEF LInv, Counted
  <2> QED BY <1>1, <1>3, <1>4, <2>1, <2>2 DEF LInv, Counted
<1>8. ASSUME NEW e \in Chains PROVE ChainKept(e)'
  <2> DEFINE n == 2 * Quota(e) - 2 * One(Posting(e))
             m == n + 2 * b(e)
  <2>1. Quota(e) \in Int /\ Quota(e)' = Quota(e) + b(e)
    <3>1. Granted(e)' = Granted(e) + b(e)
      <4>1. CASE e = "Wdt"
        BY <1>4, <4>1, QuotaType DEF Granted, One, LInv
      <4>2. CASE e # "Wdt"
        <5>1. Granted(e)' = Granted(e) /\ Granted(e) \in Nat
          BY <1>4, <4>2, QuotaType DEF Granted, Chains, LInv
        <5> QED BY <4>2, <5>1 DEF One
      <4> QED BY <4>1, <4>2
    <3>2. Unused(e)' = Unused(e)
      BY <1>3, <1>6 DEF Unused
    <3>3. Granted(e) \in Nat /\ Unused(e) \in Nat /\ b(e) \in {0, 1}
      BY QuotaType DEF One, LInv
    <3> HIDE DEF b
    <3> QED BY <3>1, <3>2, <3>3 DEF Quota
  <2>2. /\ One(Posting(e)') = One(Posting(e)) /\ One(Posting(e)) \in {0, 1}
        /\ One(Armed(e)) \in {0, 1} /\ One(Armed(e)') \in {0, 1} /\ b(e) \in {0, 1}
        /\ One(Armed(e)') <= One(Armed(e)) /\ One(Posting(e)) <= One(Armed(e))
    <3>1. Posting(e)' <=> Posting(e)
      BY <1>1 DEF Posting
    <3>2. Armed(e)' => Armed(e)
      BY <1>1, <1>3, <3>1 DEF Armed
    <3>3. Posting(e) => Armed(e)
      BY DEF Armed
    <3> QED BY <3>1, <3>2, <3>3 DEF One
  <2>3. n \in Int /\ m \in Int /\ n <= m
    BY <2>1, <2>2
  <2>4. Fits(evq, e, n)
    BY DEF LInv, ChainKept
  <2>5. Count(evq, Recovers(e)) + One(Armed(e)) <= Quota(e) /\ Count(evq, Recovers(e)) \in Nat
    BY QuotaType DEF LInv, ChainKept
  <2>6. e = "Wdt" => b(e) = 1
    BY DEF One
  <2> HIDE DEF b
  <2>7. e = "Wdt" => 2 * Count(evq, Recovers(e)) + 2 <= m
    BY <2>1, <2>2, <2>5, <2>6
  <2> HIDE DEF n, m
  <2>8. Fits(evq, e, m)
    BY <1>2, <2>3, <2>4, FitsMore
  <2>9. Fits(evq', e, m)
    BY <1>6, <2>3, <2>7, <2>8
  <2>10. Count(evq', Recovers(e)) <= Count(evq, Recovers(e)) + b(e) /\ Count(evq', Recovers(e)) \in Nat
    BY <1>2, <1>6, CountType DEF b
  <2>11. /\ Quota(e)' \in Int
         /\ m <= 2 * Quota(e)' - 2 * One(Posting(e)')
         /\ Count(evq', Recovers(e)) + One(Armed(e)') <= Quota(e)'
    BY <2>1, <2>2, <2>5, <2>10 DEF m, n
  <2> QED BY <1>2, <2>3, <2>9, <2>11, KeepsChain
<1> QED BY <1>7, <1>8 DEF LInv

\* A command brings the places of the three updates it may publish.
LEMMA I2cWriteL ==
  ASSUME IInv, IInv', LInv, NEW c, I2cWrite(c) PROVE LInv'
<1>1. /\ bmc = "released" /\ left.cmd > 0 /\ left' = [left EXCEPT !.cmd = @ - 1]
      /\ evq' = post_smc_action(evq, "I2C", "I2c", "I2c")
      /\ pc' = pc /\ cur' = cur /\ ctx' = ctx /\ res' = res
  BY DEF I2cWrite
<1>2. evq \in Seq(Matched) /\ Len(evq') \in Nat
  BY <1>1 DEF IInv, Booting, Running, TypeOK
<1>3. /\ ao'["I2c"].pnc = 1 /\ ao["I2c"].pnc \in {0, 1}
      /\ \A e \in Chains : ev'[e] = ev[e]
  BY DEF I2cWrite, IInv, TypeOK, AOs, AoData, Evs, Chains
<1>4. /\ left'.bmcReset = left.bmcReset /\ left'.timeout = left.timeout
      /\ left'.cmd = left.cmd - 1 /\ left.cmd \in Nat /\ MaxCmd \in Nat
  BY <1>1, BoundsAssumption DEF IInv, TypeOK
<1>5. /\ Count(evq', Updates) = Count(evq, Updates) /\ Count(evq', Mails) <= Count(evq, Mails) + 1
      /\ \A e \in Chains : Count(evq', Recovers(e)) = Count(evq, Recovers(e))
      /\ \A e \in Chains, n \in Int : Fits(evq, e, n) => Fits(evq', e, n)
  BY <1>1, <1>2, MailPosted
<1>6. Counted'
  <2>1. Count(evq, Mails) \in Nat /\ Count(evq', Mails) \in Nat /\ Count(evq, Mails) <= MaxCmd - left.cmd
    BY <1>2, CountType, QuotaType DEF LInv, Counted
  <2>2. Count(evq', Mails) <= MaxCmd - left'.cmd
    BY <1>4, <1>5, <2>1
  <2>3. left'.cmd < MaxCmd
    BY <1>4 DEF LInv, Counted
  <2> QED BY <1>1, <1>4, <2>2, <2>3 DEF LInv, Counted
<1>7. ASSUME NEW e \in Chains PROVE ChainKept(e)'
  <2> DEFINE n == 2 * Quota(e) - 2 * One(Posting(e))
  <2>1. Quota(e) \in Int /\ Quota(e)' \in Int /\ Quota(e) <= Quota(e)'
    <3>1. Granted(e) \in Nat /\ Unused(e) \in Nat /\ Count(evq, Updates) \in Nat
      BY QuotaType DEF LInv
    <3>2. CASE e = "Wdt"
      <4>1. Granted(e)' = Granted(e) /\ Unused(e)' = Unused(e)
        BY <1>4, <3>2 DEF Granted, Unused
      <4> QED BY <3>1, <4>1 DEF Quota
    <3>3. CASE e # "Wdt"
      <4>1. 3 * (MaxCmd - left'.cmd) = 3 * (MaxCmd - left.cmd) + 3
        BY <1>4
      <4>2. Granted(e)' = Granted(e) + 3
        <5>1. CASE e = "Bmc0"
          BY <1>4, <4>1, <5>1 DEF Granted
        <5>2. CASE e = "Bmc1"
          <6>1. left.bmcReset \in Nat /\ MaxBmcReset \in Nat
            BY QuotaType DEF LInv
          <6>2. /\ Granted(e) = 1 + 3 * (MaxCmd - left.cmd) + (MaxBmcReset - left.bmcReset)
                /\ Granted(e)' = 1 + 3 * (MaxCmd - left'.cmd) + (MaxBmcReset - left.bmcReset)
            BY <1>4, <5>2 DEF Granted
          <6> QED BY <1>4, <4>1, <6>1, <6>2
        <5> QED BY <3>3, <5>1, <5>2 DEF Chains
      <4>3. Unused(e)' = Count(evq, Updates) + 3 /\ Unused(e) = Count(evq, Updates) + 3 * ao["I2c"].pnc
        BY <1>3, <1>5, <3>1, <3>3 DEF Unused
      <4>4. 3 * ao["I2c"].pnc \in Nat
        BY <1>3
      <4> QED BY <3>1, <4>2, <4>3, <4>4 DEF Quota
    <3> QED BY <3>2, <3>3
  <2>2. /\ One(Posting(e)') = One(Posting(e)) /\ One(Posting(e)) \in {0, 1}
        /\ One(Armed(e)) \in {0, 1} /\ One(Armed(e)') = One(Armed(e))
    <3>1. (Posting(e)' <=> Posting(e)) /\ (Armed(e)' <=> Armed(e))
      BY <1>1, <1>3 DEF Posting, Armed
    <3> QED BY <3>1 DEF One
  <2>3. n \in Int
    BY <2>1, <2>2
  <2>4. Fits(evq, e, n)
    BY DEF LInv, ChainKept
  <2>5. Count(evq, Recovers(e)) + One(Armed(e)) <= Quota(e) /\ Count(evq, Recovers(e)) \in Nat
    BY QuotaType DEF LInv, ChainKept
  <2>6. n <= 2 * Quota(e)' - 2 * One(Posting(e)')
    BY <2>1, <2>2
  <2> HIDE DEF n
  <2>7. Fits(evq', e, n)
    BY <1>5, <2>3, <2>4
  <2>8. Count(evq', Recovers(e)) + One(Armed(e)') <= Quota(e)'
    BY <1>5, <2>1, <2>2, <2>5
  <2> QED BY <1>2, <2>1, <2>3, <2>6, <2>7, <2>8, KeepsChain
<1> QED BY <1>6, <1>7 DEF LInv

\* Every step keeps the chains.
LEMMA NextL == ASSUME IInv, IInv', LInv, [Next]_vars PROVE LInv'
<1>1. CASE UNCHANGED vars
  BY <1>1, StutterL
<1>2. CASE MainThread
  BY <1>2, IdleEmptyL, IdleInitializeL, IdleDispatchL, VerifyBeginL, VerifySucceedsL,
     VerifyFailsL, RecoverBeginL, RecoverSucceedsL, RecoverFailsL, UpdateBeginL, UpdateEndL,
     UpdatePublishL, UpdateRebootL, RunI2cL, RunLockdownL DEF MainThread
<1>3. CASE Interrupt
  BY <1>3, BmcResetL, WdtTimeoutL, I2cWriteL DEF Interrupt
<1>4. CASE Environment
  BY <1>4, ResetL, CorruptL DEF Environment
<1> QED BY <1>1, <1>2, <1>3, <1>4 DEF Next

\* LInv is an inductive invariant relative to IInv.
LEMMA LInvariance == Spec => []LInv
<1>1. Init => LInv
  BY InitL
<1>2. IInv /\ IInv' /\ LInv /\ [Next]_vars => LInv'
  BY NextL
<1> QED BY <1>1, <1>2, Invariance, PTL DEF Spec

\* Events counted in two parts.
LEMMA CountUnion ==
  ASSUME NEW q, Len(q) \in Nat, NEW S, NEW T
  PROVE  Count(q, S \cup T) <= Count(q, S) + Count(q, T)
<1> DEFINE A == Places(q, Len(q), S)
           B == Places(q, Len(q), T)
<1>1. IsFiniteSet(A) /\ IsFiniteSet(B)
  BY FirstType
<1>2. Places(q, Len(q), S \cup T) = A \cup B
  BY DEF Places
<1> HIDE DEF A, B
<1>3. Cardinality(A \cup B) = Cardinality(A) + Cardinality(B) - Cardinality(A \cap B)
  BY <1>1, FS_Union
<1>4. A \cap B \in SUBSET A
  OBVIOUS
<1>5. Cardinality(A \cap B) \in Nat /\ Cardinality(A) \in Nat /\ Cardinality(B) \in Nat
  BY <1>1, <1>4, FS_Subset, FS_CardinalityType
<1>6. Cardinality(A \cup B) <= Cardinality(A) + Cardinality(B)
  BY <1>3, <1>5
<1> QED BY <1>2, <1>6 DEF Count, First, A, B

\* What waits is counted: the two kinds of event of each chain, the updates and
\* the commands.
LEMMA LengthIsCounted ==
  ASSUME NEW q \in Seq(Matched)
  PROVE  Len(q) <= Count(q, Verifies("Bmc0")) + Count(q, Recovers("Bmc0"))
                   + (Count(q, Verifies("Bmc1")) + Count(q, Recovers("Bmc1")))
                   + (Count(q, Verifies("Wdt")) + Count(q, Recovers("Wdt")))
                   + (Count(q, Updates) + Count(q, Mails))
<1> DEFINE C(e) == Verifies(e) \cup Recovers(e)
           D == Updates \cup Mails
           all == (C("Bmc0") \cup C("Bmc1")) \cup (C("Wdt") \cup D)
<1>1. Len(q) \in Nat
  OBVIOUS
<1>2. \A S : Count(q, S) \in Nat
  BY <1>1, CountType
<1>3. Count(q, all) = Len(q)
  <2>1. Matched \subseteq all
    BY DEF Matched, Verifies, Recovers, Updates, Mails, EventsOf
  <2> HIDE DEF all
  <2>2. Places(q, Len(q), all) = 1..Len(q)
    BY <2>1 DEF Places
  <2>3. Cardinality(1..Len(q)) = Len(q)
    <3>1. Cardinality(1..Len(q)) = IF 1 > Len(q) THEN 0 ELSE Len(q) - 1 + 1
      BY <1>1, FS_Interval
    <3> QED BY <1>1, <3>1
  <2> QED BY <2>2, <2>3 DEF Count, First
<1>4. \A e : Count(q, C(e)) <= Count(q, Verifies(e)) + Count(q, Recovers(e))
  BY <1>1, CountUnion
<1>5. Count(q, D) <= Count(q, Updates) + Count(q, Mails)
  BY <1>1, CountUnion
<1> HIDE DEF C, D
<1>6. ASSUME NEW S, NEW T, NEW m \in Nat, NEW n \in Nat, Count(q, S) <= m, Count(q, T) <= n
      PROVE  Count(q, S \cup T) <= m + n
  <2>1. Count(q, S \cup T) <= Count(q, S) + Count(q, T)
    BY <1>1, CountUnion
  <2>2. Count(q, S) \in Nat /\ Count(q, T) \in Nat /\ Count(q, S \cup T) \in Nat
    BY <1>2
  <2> QED BY <1>6, <2>1, <2>2
<1> DEFINE N(e) == Count(q, Verifies(e)) + Count(q, Recovers(e))
           K == Count(q, Updates) + Count(q, Mails)
<1>7. K \in Nat /\ \A e : N(e) \in Nat
  BY <1>2
<1>8. Count(q, D) <= K /\ \A e : Count(q, C(e)) <= N(e)
  BY <1>4, <1>5
<1> HIDE DEF N, K
<1>9. Count(q, C("Bmc0") \cup C("Bmc1")) <= N("Bmc0") + N("Bmc1")
  BY <1>6, <1>7, <1>8
<1>10. Count(q, C("Wdt") \cup D) <= N("Wdt") + K
  BY <1>6, <1>7, <1>8
<1>11. N("Bmc0") + N("Bmc1") \in Nat /\ N("Wdt") + K \in Nat
  BY <1>7
<1>12. Count(q, all) <= (N("Bmc0") + N("Bmc1")) + (N("Wdt") + K)
  BY <1>6, <1>9, <1>10, <1>11
<1>13. Len(q) <= N("Bmc0") + N("Bmc1") + N("Wdt") + K
  <2> HIDE DEF all
  <2> QED BY <1>3, <1>7, <1>12
<1> QED BY <1>13 DEF N, K

\* At most three events of a chain wait for each time it was armed.
LEMMA ChainBounds ==
  ASSUME IInv, LInv, evq \in Seq(Matched), NEW e \in Chains
  PROVE  Count(evq, Verifies(e)) + Count(evq, Recovers(e)) <= 3 * Quota(e)
<1> DEFINE n == 2 * Quota(e) - 2 * One(Posting(e))
<1>1. /\ Quota(e) \in Int /\ One(Posting(e)) \in {0, 1} /\ One(Armed(e)) \in {0, 1}
      /\ Count(evq, Verifies(e)) \in Nat /\ Count(evq, Recovers(e)) \in Nat
  BY QuotaType DEF LInv
<1>2. Count(evq, Recovers(e)) + One(Armed(e)) <= Quota(e) /\ Fits(evq, e, n)
  BY DEF LInv, ChainKept
<1>3. n \in Int /\ n <= 2 * Quota(e)
  BY <1>1
<1> HIDE DEF n
<1>4. Count(evq, Verifies(e)) <= n
  BY <1>2, <1>3, FitsBounds
<1> QED BY <1>1, <1>2, <1>3, <1>4

\* The chains, the updates and the commands together.
LEMMA ChainsBound == ASSUME IInv, LInv PROVE QueueLinear
<1> DEFINE b == MaxBmcReset - left.bmcReset
           t == MaxTimeout - left.timeout
           c == MaxCmd - left.cmd
<1>1. b \in Nat /\ t \in Nat /\ c \in Nat
  BY QuotaType DEF LInv, Counted
<1>2. CASE Booting
  <2>1. Len(evq) = 1
    BY <1>2, BootQueue DEF Booting
  <2> QED BY <1>1, <2>1 DEF QueueLinear
<1>3. CASE Running
  <2>1. evq \in Seq(Matched)
    BY <1>3 DEF Running
  <2> DEFINE V(e) == Count(evq, Verifies(e))
             R(e) == Count(evq, Recovers(e))
             U == Count(evq, Updates)
             M == Count(evq, Mails)
  <2>2. /\ V("Bmc0") + R("Bmc0") <= 3 * Quota("Bmc0")
        /\ V("Bmc1") + R("Bmc1") <= 3 * Quota("Bmc1")
        /\ V("Wdt") + R("Wdt") <= 3 * Quota("Wdt")
    BY <2>1, ChainBounds DEF Chains
  <2>3. /\ V("Bmc0") \in Nat /\ R("Bmc0") \in Nat /\ V("Bmc1") \in Nat /\ R("Bmc1") \in Nat
        /\ V("Wdt") \in Nat /\ R("Wdt") \in Nat /\ U \in Nat /\ M \in Nat /\ Len(evq) \in Nat
    BY QuotaType DEF LInv
  <2>4. Len(evq) <= V("Bmc0") + R("Bmc0") + (V("Bmc1") + R("Bmc1"))
                    + (V("Wdt") + R("Wdt")) + (U + M)
    BY <2>1, LengthIsCounted
  <2>5. M <= c
    BY DEF LInv, Counted
  <2> DEFINE p == 3 * ao["I2c"].pnc
  <2>6. p \in Nat
    BY QuotaType DEF LInv
  <2>7. /\ Quota("Bmc0") = (1 + 3 * c) - (U + p)
        /\ Quota("Bmc1") = (1 + 3 * c + b) - (U + p)
        /\ Quota("Wdt") = t - 0
    <3>1. Granted("Bmc0") = 1 + 3 * c /\ Granted("Bmc1") = 1 + 3 * c + b /\ Granted("Wdt") = t
      BY DEF Granted
    <3>2. Unused("Bmc0") = U + p /\ Unused("Bmc1") = U + p /\ Unused("Wdt") = 0
      BY DEF Unused
    <3> QED BY <3>1, <3>2 DEF Quota
  <2> DEFINE n0 == V("Bmc0") + R("Bmc0")
             n1 == V("Bmc1") + R("Bmc1")
             nW == V("Wdt") + R("Wdt")
  <2>8. n0 \in Nat /\ n1 \in Nat /\ nW \in Nat
    BY <2>3
  <2>9. n0 <= 3 * ((1 + 3 * c) - (U + p)) /\ n1 <= 3 * ((1 + 3 * c + b) - (U + p)) /\ nW <= 3 * t
    BY <1>1, <2>2, <2>7
  <2>10. Len(evq) <= n0 + n1 + nW + (U + M)
    BY <2>4
  <2>11. Len(evq) \in Nat /\ U \in Nat /\ M \in Nat
    BY <2>3
  <2> HIDE DEF U, M, b, t, c, p, n0, n1, nW
  <2>12. Len(evq) <= 6 + 3 * (b + t) + 19 * c
    <3>1. n0 + n1 <= 6 + 18 * c + 3 * b - 6 * U
      BY <1>1, <2>6, <2>8, <2>9, <2>11
    <3> QED BY <1>1, <2>5, <2>8, <2>9, <2>10, <2>11, <3>1
  <2> QED BY <2>12 DEF QueueLinear, b, t, c
<1> QED BY <1>2, <1>3 DEF IInv

\* What waits in the FIFO is linear in the interrupts and commands so far, for any
\* number of them and any heap: handleRecoveryAction and handlePostRecoverySuccess
\* both post a verification and a failed one posts a recovery again, and still each
\* indication of a BMC reset, each expiry and each of a command's three updates
\* accounts for at most three waiting events of each event context it arms.
THEOREM QueueIsLinear == Spec => []QueueLinear
<1>1. IInv /\ LInv => QueueLinear
  BY ChainsBound
<1> QED BY <1>1, Invariance, LInvariance, PTL

-----------------------------------------------------------------------------
(* Armed updates                                                           *)

\* An UPDATE event waits in q.
UpdateWaits(q) == \E k \in 1..Len(q) : q[k].state = "UPDATE"

\* The heap holds more events than can ever wait.
Ample == QMax > 6 + 3 * (MaxBmcReset + MaxTimeout) + 19 * MaxCmd

\* post_smc_action takes nothing out of the queue.
LEMMA WaitsPost ==
  ASSUME NEW S, NEW q \in Seq(S), NEW st, NEW a, NEW e, UpdateWaits(q)
  PROVE  UpdateWaits(post_smc_action(q, st, a, e))
<1>1. PICK k \in 1..Len(q) : q[k].state = "UPDATE"
  BY DEF UpdateWaits
<1> DEFINE x == [state |-> st, ao |-> a, ev |-> e]
<1>2. k \in 1..Len(Append(q, x)) /\ Append(q, x)[k] = q[k]
  OBVIOUS
<1> QED BY <1>1, <1>2 DEF UpdateWaits, post_smc_action

\* PublishUpdateEvent takes nothing out of the queue, and posts its event when
\* there is room.
LEMMA WaitsPublish ==
  ASSUME NEW S, NEW q \in Seq(S), NEW n \in Nat
  PROVE  /\ UpdateWaits(q) => UpdateWaits(PublishUpdateEvents(q, n))
         /\ n # 0 /\ Len(q) < QMax => UpdateWaits(PublishUpdateEvents(q, n))
<1> DEFINE room == IF Len(q) < QMax THEN QMax - Len(q) ELSE 0
           m == IF n < room THEN n ELSE room
           x == [state |-> "UPDATE", ao |-> "Update", ev |-> "Update"]
           tail == [k \in 1..m |-> x]
<1>1. m \in Nat /\ (n # 0 /\ Len(q) < QMax => m # 0) /\ Len(q) \in Nat
  BY BoundsAssumption
<1>2. tail \in Seq({x}) /\ Len(tail) = m
  BY <1>1
<1>3. PublishUpdateEvents(q, n) = q \o tail
  BY DEF PublishUpdateEvents
<1>4. \A k \in 1..m : tail[k] = x
  OBVIOUS
<1> HIDE DEF m, tail
<1>5. /\ Len(q \o tail) = Len(q) + m
      /\ \A k \in 1..Len(q) : (q \o tail)[k] = q[k]
      /\ \A k \in 1..m : (q \o tail)[Len(q) + k] = x
  BY <1>1, <1>2, <1>4
<1>6. ASSUME UpdateWaits(q) PROVE UpdateWaits(q \o tail)
  <2>1. PICK k \in 1..Len(q) : q[k].state = "UPDATE"
    BY <1>6 DEF UpdateWaits
  <2>2. k \in 1..Len(q \o tail) /\ (q \o tail)[k] = q[k]
    BY <1>1, <1>5
  <2> QED BY <2>1, <2>2 DEF UpdateWaits
<1>7. ASSUME m # 0 PROVE UpdateWaits(q \o tail)
  <2>1. 1 \in 1..m /\ Len(q) + 1 \in 1..Len(q \o tail)
    BY <1>1, <1>5, <1>7
  <2>2. (q \o tail)[Len(q) + 1].state = "UPDATE"
    BY <1>5, <2>1
  <2> QED BY <2>1, <2>2 DEF UpdateWaits
<1> QED BY <1>1, <1>3, <1>6, <1>7

\* Taking an event of another state out leaves the UPDATE events.
LEMMA WaitsTail ==
  ASSUME NEW S, NEW q \in Seq(S), q # << >>, UpdateWaits(q), Head(q).state # "UPDATE"
  PROVE  UpdateWaits(Tail(q))
<1>1. PICK k \in 1..Len(q) : q[k].state = "UPDATE"
  BY DEF UpdateWaits
<1>2. k # 1
  BY <1>1
<1>3. k - 1 \in 1..Len(Tail(q)) /\ Tail(q)[k - 1] = q[k]
  BY <1>2
<1> QED BY <1>1, <1>3 DEF UpdateWaits

\* An ample heap always has room for one more event.
LEMMA RoomForOne == ASSUME IInv, LInv, Ample PROVE Len(evq) < QMax
<1>1. Len(evq) <= 6 + 3 * ((MaxBmcReset - left.bmcReset) + (MaxTimeout - left.timeout))
                    + 19 * (MaxCmd - left.cmd)
  BY ChainsBound DEF QueueLinear
<1>2. left.bmcReset \in Nat /\ left.timeout \in Nat /\ left.cmd \in Nat
  BY DEF IInv, TypeOK
<1>3. Len(evq) \in Nat
  BY DEF IInv, TypeOK
<1> DEFINE n == Len(evq)
           x == left.bmcReset
           y == left.timeout
           z == left.cmd
<1> HIDE DEF n, x, y, z
<1>4. n <= 6 + 3 * ((MaxBmcReset - x) + (MaxTimeout - y)) + 19 * (MaxCmd - z)
  BY <1>1 DEF n, x, y, z
<1>5. x \in Nat /\ y \in Nat /\ z \in Nat /\ n \in Nat
  BY <1>2, <1>3 DEF n, x, y, z
<1>6. n < QMax
  BY <1>4, <1>5, BoundsAssumption DEF Ample
<1> QED BY <1>6 DEF n

\* A step that arms no update, loses no UPDATE event and leaves an update under
\* way strands none.
LEMMA QuietQueued ==
  ASSUME UpdateNotStranded,
         ao'["Update"].pnc = 1 => ao["Update"].pnc = 1,
         UpdateWaits(evq) => UpdateWaits(evq'),
         cur = "UPDATE" /\ pc \in {"run", "update"} =>
           ao'["Update"].pnc # 1 \/ (cur' = "UPDATE" /\ pc' \in {"run", "update"})
  PROVE  UpdateNotStranded'
  BY DEF UpdateNotStranded, UpdateWaits

\* The handlers of VERIFY and RECOVERY work on other objects.
LEMMA NotUpdate ==
  ASSUME IInv, cur \in {"VERIFY", "RECOVERY"}
  PROVE  /\ ctx.ao # "Update" /\ ctx.ao \in AOs /\ "Update" \in AOs
         /\ ao \in [AOs -> AoData] /\ evq \in Seq(SmcEvent)
<1>1. [state |-> cur, ao |-> ctx.ao, ev |-> ctx.ev] \in Matched
  BY DEF IInv, Handling
<1> QED BY <1>1 DEF Matched, AOs, IInv, TypeOK

\* run_verify, run_recovery and run_lockdown strand no update.
LEMMA HandlersQueued ==
  ASSUME IInv, UpdateNotStranded,
         \/ VerifyBegin \/ VerifySucceeds \/ VerifyFails
         \/ RecoverBegin \/ RecoverSucceeds \/ RecoverFails \/ RunLockdown
  PROVE  UpdateNotStranded'
<1>1. CASE VerifyBegin \/ RecoverBegin
  BY <1>1, QuietQueued DEF VerifyBegin, RecoverBegin
<1>2. CASE VerifySucceeds
  <2>1. cur = "VERIFY"
    BY <1>2 DEF VerifySucceeds, IInv, Handling
  <2>2. ao'["Update"] = ao["Update"] /\ UNCHANGED <<evq, cur>>
    BY <1>2, <2>1, NotUpdate DEF VerifySucceeds
  <2> QED BY <2>1, <2>2, QuietQueued
<1>3. CASE VerifyFails
  <2>1. cur = "VERIFY"
    BY <1>3 DEF VerifyFails, IInv, Handling
  <2>2. ao'["Update"] = ao["Update"] /\ UNCHANGED cur
    BY <1>3, <2>1, NotUpdate DEF VerifyFails
  <2>3. evq' = evq \/ evq' = post_smc_action(evq, "RECOVERY", ctx.ao, ctx.ev)
    BY <1>3 DEF VerifyFails
  <2>4. UpdateWaits(evq) => UpdateWaits(evq')
    BY <2>1, <2>3, NotUpdate, WaitsPost
  <2> QED BY <2>1, <2>2, <2>4, QuietQueued
<1>4. CASE RecoverSucceeds
  <2>1. cur = "RECOVERY"
    BY <1>4 DEF RecoverSucceeds, IInv, Handling
  <2>2. ao'["Update"] = ao["Update"] /\ UNCHANGED cur
    BY <1>4, <2>1, NotUpdate DEF RecoverSucceeds
  <2> DEFINE once == post_smc_action(evq, "VERIFY", ctx.ao, ctx.ev)
  <2>3. \/ evq' = post_smc_action(evq, "VERIFY", ctx.ao, ctx.ev)
        \/ evq' = post_smc_action(once, "VERIFY", ctx.ao, ctx.ev)
    BY <1>4 DEF RecoverSucceeds
  <2>4. [state |-> "VERIFY", ao |-> ctx.ao, ev |-> ctx.ev] \in SmcEvent
    BY <2>1 DEF IInv, TypeOK, Handling, Matched, SmcEvent, Events, AOs, Evs
  <2>5. once \in Seq(SmcEvent)
    BY <2>1, <2>4, NotUpdate, PostType
  <2>6. UpdateWaits(evq) => UpdateWaits(once)
    BY <2>1, NotUpdate, WaitsPost
  <2> HIDE DEF once
  <2>7. UpdateWaits(once) => UpdateWaits(post_smc_action(once, "VERIFY", ctx.ao, ctx.ev))
    BY <2>5, WaitsPost
  <2>8. UpdateWaits(evq) => UpdateWaits(evq')
    BY <2>3, <2>6, <2>7 DEF once
  <2> QED BY <2>1, <2>2, <2>8, QuietQueued
<1>5. CASE RecoverFails
  <2>1. cur = "RECOVERY"
    BY <1>5 DEF RecoverFails, IInv, Handling
  <2>2. ao'["Update"] = ao["Update"] /\ UNCHANGED evq
    BY <1>5, <2>1, NotUpdate DEF RecoverFails
  <2> QED BY <2>1, <2>2, QuietQueued
<1>6. CASE RunLockdown
  <2>1. ao \in [AOs -> AoData] /\ "Update" \in AOs
    BY DEF IInv, TypeOK, AOs
  <2>2. ao'["Update"].pnc = ao["Update"].pnc /\ UNCHANGED <<evq, cur, pc>>
    BY <1>6, <2>1 DEF RunLockdown
  <2> QED BY <2>2, QuietQueued
<1> QED BY <1>1, <1>2, <1>3, <1>4, <1>5, <1>6

\* Publishing the initial events strands no update.
LEMMA PublishQueued ==
  ASSUME IInv, UpdateNotStranded, UpdatePublish PROVE UpdateNotStranded'
<1>1. ao \in [AOs -> AoData] /\ "Update" \in AOs /\ evq \in Seq(SmcEvent)
  BY DEF IInv, TypeOK, AOs
<1>2. PublishInitialEvents(evq) /\ pc = "publish"
  BY DEF UpdatePublish
<1>3. CASE prov
  <2>1. PublishBmcEvents(evq)
    BY <1>2, <1>3 DEF PublishInitialEvents
  <2>2. ao'["Update"] = ao["Update"]
    BY <1>1, <2>1 DEF PublishBmcEvents
  <2> DEFINE one == post_smc_action(evq, "VERIFY", "Bmc", "Bmc0")
  <2>3. one \in Seq(SmcEvent)
    <3>1. [state |-> "VERIFY", ao |-> "Bmc", ev |-> "Bmc0"] \in SmcEvent
      BY DEF SmcEvent, Events, AOs, Evs
    <3> QED BY <1>1, <3>1, PostType
  <2>4. UpdateWaits(evq) => UpdateWaits(one)
    BY <1>1, WaitsPost
  <2>5. evq' = post_smc_action(one, "VERIFY", "Bmc", "Bmc1")
    BY <2>1 DEF PublishBmcEvents
  <2> HIDE DEF one
  <2>6. UpdateWaits(evq) => UpdateWaits(evq')
    BY <2>3, <2>4, <2>5, WaitsPost
  <2> QED BY <1>2, <2>2, <2>6, QuietQueued
<1>4. CASE ~prov
  BY <1>2, <1>4, QuietQueued DEF PublishInitialEvents
<1> QED BY <1>3, <1>4

\* UpdateIntentHandle posts the event of the update it arms.
LEMMA RunI2cQueued ==
  ASSUME IInv, LInv, Ample, UpdateNotStranded, RunI2c PROVE UpdateNotStranded'
<1>1. /\ ao \in [AOs -> AoData] /\ "Update" \in AOs /\ "I2c" \in AOs
      /\ evq \in Seq(SmcEvent) /\ cur = "I2C"
  BY DEF IInv, TypeOK, AOs, RunI2c
<1>2. CASE UNCHANGED evq /\ (ao' = ao \/ ao' = [ao EXCEPT !["I2c"].pnc = 0])
  <2>1. ao'["Update"] = ao["Update"]
    BY <1>1, <1>2
  <2> QED BY <1>1, <1>2, <2>1, QuietQueued
<1>3. CASE UpdateIntentHandle(cmd.bits, cmd.source)
  <2> DEFINE n == Len(UpdateEvents(cmd.bits))
  <2>1. n \in 0..3
    BY ThreeUpdates
  <2>2. evq' = PublishUpdateEvents(evq, n)
    BY <1>3 DEF UpdateIntentHandle
  <2>3. n = 0 => ao'["Update"] = ao["Update"]
    BY <1>1, <1>3 DEF UpdateIntentHandle
  <2> HIDE DEF n
  <2>4. /\ UpdateWaits(evq) => UpdateWaits(evq')
        /\ n # 0 /\ Len(evq) < QMax => UpdateWaits(evq')
    BY <1>1, <2>1, <2>2, WaitsPublish
  <2>5. CASE n = 0
    BY <1>1, <2>3, <2>4, <2>5, QuietQueued
  <2>6. CASE n # 0
    BY <2>4, <2>6, RoomForOne DEF UpdateNotStranded, UpdateWaits
  <2> QED BY <2>5, <2>6
<1> QED BY <1>2, <1>3 DEF RunI2c

\* run_idle hands the event of an armed update to run_update.
LEMMA IdleQueued ==
  ASSUME IInv, UpdateNotStranded, IdleEmpty \/ IdleInitialize \/ IdleDispatch
  PROVE  UpdateNotStranded'
<1>1. evq \in Seq(SmcEvent)
  BY DEF IInv, TypeOK
<1>2. ~(cur = "UPDATE" /\ pc \in {"run", "update"})
  BY DEF IdleEmpty, IdleInitialize, IdleDispatch, AtIdle
<1>3. CASE IdleEmpty
  BY <1>2, <1>3, QuietQueued DEF IdleEmpty
<1>4. CASE IdleDispatch
  <2>1. ao' = ao /\ evq # << >> /\ evq' = Tail(evq) /\ cur' = Head(evq).state /\ pc' = "run"
    BY <1>4 DEF IdleDispatch
  <2>2. CASE Head(evq).state = "UPDATE"
    BY <2>1, <2>2 DEF UpdateNotStranded
  <2>3. CASE Head(evq).state # "UPDATE"
    <3>1. UpdateWaits(evq) => UpdateWaits(evq')
      BY <1>1, <2>1, <2>3, WaitsTail
    <3> QED BY <1>2, <2>1, <3>1, QuietQueued
  <2> QED BY <2>2, <2>3
<1>5. CASE IdleInitialize
  <2>1. evq = <<InitialEvent>>
    <3>1. ASSUME evq \in Seq(Matched) PROVE FALSE
      <4>1. Head(evq) \in Matched
        BY <1>5, <3>1 DEF IdleInitialize
      <4> QED BY <1>5, <4>1 DEF IdleInitialize, Matched
    <3> QED BY <3>1 DEF IInv, Booting, Running
  <2>2. ~UpdateWaits(evq)
    BY <2>1 DEF UpdateWaits, InitialEvent
  <2>3. ao["Update"].pnc # 1
    BY <1>2, <2>2 DEF UpdateNotStranded, UpdateWaits
  <2>4. ao'["Update"] = ao["Update"]
    <3>1. ao \in [AOs -> AoData] /\ "Update" \in AOs
      BY DEF IInv, TypeOK, AOs
    <3> QED BY <1>5, <3>1 DEF IdleInitialize, PublishInitialEvents, PublishBmcEvents
  <2> QED BY <2>3, <2>4 DEF UpdateNotStranded
<1> QED BY <1>3, <1>4, <1>5

\* An interrupt and software on a running processor strand no update.
LEMMA InterruptQueued ==
  ASSUME IInv, UpdateNotStranded,
         Interrupt \/ \E i \in Images, r \in Regions : Corrupt(i, r)
  PROVE  UpdateNotStranded'
<1>1. ao \in [AOs -> AoData] /\ "Update" \in AOs /\ evq \in Seq(SmcEvent)
  BY DEF IInv, TypeOK, AOs
<1>2. ao'["Update"] = ao["Update"] /\ UNCHANGED <<cur, pc>>
  BY <1>1 DEF Interrupt, BmcReset, WdtTimeout, I2cWrite, Corrupt
<1>3. UpdateWaits(evq) => UpdateWaits(evq')
  <2>1. \/ evq' = evq
        \/ \E st, a, e : evq' = post_smc_action(evq, st, a, e)
    BY DEF Interrupt, BmcReset, WdtTimeout, I2cWrite, Corrupt
  <2> QED BY <1>1, <2>1, WaitsPost
<1> QED BY <1>2, <1>3, QuietQueued

\* Every step keeps an armed update's event.
LEMMA NextQueued ==
  ASSUME IInv, LInv, Ample, UpdateNotStranded, [Next]_vars PROVE UpdateNotStranded'
<1>1. ao \in [AOs -> AoData] /\ "Update" \in AOs
  BY DEF IInv, TypeOK, AOs
<1>2. CASE UNCHANGED vars
  BY <1>2 DEF vars, UpdateNotStranded
<1>3. CASE UpdateBegin
  BY <1>3, QuietQueued DEF UpdateBegin
<1>4. CASE UpdateEnd
  <2>1. ctx.ao = "Update"
    <3>1. cur = "UPDATE"
      BY <1>4 DEF UpdateEnd, IInv, Handling
    <3>2. [state |-> cur, ao |-> ctx.ao, ev |-> ctx.ev] \in Matched
      BY <3>1 DEF IInv, Handling
    <3> QED BY <3>1, <3>2 DEF Matched
  <2>2. ao'["Update"].pnc = 0
    <3>1. ao["Update"] \in AoData /\ ao' = [ao EXCEPT !["Update"].pnc = 0]
      BY <1>1, <1>4, <2>1 DEF UpdateEnd
    <3>2. [ao["Update"] EXCEPT !.pnc = 0].pnc = 0
      BY <3>1 DEF AoData
    <3> QED BY <1>1, <3>1, <3>2
  <2> QED BY <2>2 DEF UpdateNotStranded
<1>5. CASE UpdateReboot \/ Reset
  <2>1. ao'["Update"].pnc = 0
    <3>1. ao' = [a \in AOs |-> BlankAO]
      BY <1>5 DEF UpdateReboot, Reset, Reboot
    <3> QED BY <1>1, <3>1 DEF BlankAO
  <2> QED BY <2>1 DEF UpdateNotStranded
<1>6. CASE UpdatePublish
  BY <1>6, PublishQueued
<1>7. CASE RunI2c
  BY <1>7, RunI2cQueued
<1>8. CASE \/ VerifyBegin \/ VerifySucceeds \/ VerifyFails
           \/ RecoverBegin \/ RecoverSucceeds \/ RecoverFails \/ RunLockdown
  BY <1>8, HandlersQueued
<1>9. CASE IdleEmpty \/ IdleInitialize \/ IdleDispatch
  BY <1>9, IdleQueued
<1>10. CASE Interrupt \/ \E i \in Images, r \in Regions : Corrupt(i, r)
  BY <1>10, InterruptQueued
<1> QED
  BY <1>2, <1>3, <1>4, <1>5, <1>6, <1>7, <1>8, <1>9, <1>10 DEF Next, MainThread, Environment

\* Whenever the heap holds more events than interrupts and commands can ever have
\* waiting, every update UpdateIntentHandle arms has its event: none is left armed
\* for the event of a later intent to carry out.
THEOREM UpdatesAreQueued ==
  ASSUME Ample PROVE Spec => []UpdateNotStranded
<1>1. Init => UpdateNotStranded
  BY DEF Init, Boot, UpdateNotStranded, BlankAO, AOs
<1>2. IInv /\ LInv /\ UpdateNotStranded /\ [Next]_vars => UpdateNotStranded'
  BY NextQueued
<1> QED BY <1>1, <1>2, Invariance, LInvariance, PTL DEF Spec
=============================================================================
