-------------------------- MODULE HrotIntactProofs --------------------------
(***************************************************************************)
(* What a provisioned BMC is released with.  handlePostVerifySuccess and   *)
(* handlePostRecoveryFailure decide on the two status fields of AO_DATA,   *)
(* which recover_image sets without looking at what it wrote and which a   *)
(* second verification of the same event sets without looking at the       *)
(* flash.  The invariant says when such a field may be wrong: only while   *)
(* the verification that comes next is one of the active region.           *)
(*                                                                         *)
(* On top of the hypotheses of HrotReleaseProofs no flash write goes       *)
(* wrong.  From the same invariant, Hrot implements Platform.              *)
(*                                                                         *)
(* The last part is about the other decision, the lockdown.  Faulty writes *)
(* are back; instead commands come at rest and the FIFO has room for six   *)
(* events.  Its invariant says that an intact active region whose status   *)
(* field still holds the initial Failure has its verification waiting      *)
(* before any recovery.                                                    *)
(***************************************************************************)
EXTENDS HrotReleaseProofs, WellFoundedInduction

Bmc == ao["Bmc"]

\* What the two verifications of the BMC find.
ActiveOK == ufm /\ flash["BMC"]["active"] = "good"
RecoveryOK == ufm /\ flash["BMC"]["recovery"] = "good"

\* The event contexts that ask for a verification of the active region.
ActiveEvs == {e \in Evs : ev[e].op = "VERIFY_ACTIVE"}

\* Event k is the first verification in the queue q.
IsFirst(q, k) ==
  k \in 1..Len(q) /\ q[k].state = "VERIFY" /\ \A j \in 1..Len(q) : j < k => q[j].state # "VERIFY"

\* The queue q holds a verification, and the first one has a context in E.
Leads(q, E) == \E k \in 1..Len(q) : IsFirst(q, k) /\ q[k].ev \in E

\* The first verification in q, if there is one, has a context in E.
Follows(q, E) == \A k \in 1..Len(q) : IsFirst(q, k) => q[k].ev \in E

\* The same for a first verification that waits behind a recovery.
AfterRecovery(q, E) ==
  \A j \in 1..Len(q), k \in 1..Len(q) :
    j < k /\ q[j].state = "RECOVERY" /\ IsFirst(q, k) => q[k].ev \in E

-----------------------------------------------------------------------------
(* The inductive invariant                                                 *)

NoFaults == left.fault = 0

\* A command that waits while the object is in use finds it as
\* PublishBmcEvents left it.
Fresh ==
  InUse /\ ao["I2c"].pnc = 1 =>
    Bmc.active # "Success" /\ Bmc.recovery # "Success" /\ ~Inside("RECOVERY")

\* An active region marked Success authenticates, or is about to be verified
\* again, and then the recovery region is marked Success too.
ActiveClaim ==
  InUse /\ ~Inside("UPDATE") /\ Bmc.active = "Success" =>
    \/ ActiveOK
    \/ /\ Bmc.recovery = "Success"
       /\ IF Inside("VERIFY") THEN ctx.ev \in ActiveEvs ELSE Leads(evq, ActiveEvs)

\* A recovery region marked Success that the active one may be restored from
\* authenticates, or the verification after the restoration is of the active
\* region.
RecoveryClaim ==
  InUse /\ ~Inside("UPDATE") /\ Bmc.active # "Success" /\ Bmc.recovery = "Success" =>
    \/ RecoveryOK
    \/ /\ AfterRecovery(evq, ActiveEvs)
       /\ Inside("RECOVERY") => Follows(evq, ActiveEvs)

\* A verification of the active region that succeeds found it intact.
Authenticating ==
  pc = "auth" => InUse /\ (res.status = "Success" /\ ctx.ev \in ActiveEvs => ActiveOK)

OfBmc == InUse => Bmc.type = "BMC"

\* What a running recovery rewrites and what it writes there.
RestoresActive ==
  /\ Bmc.active # "Success" /\ Bmc.recovery = "Success"
  /\ <<"BMC", "active">> \in res.writes /\ <<"BMC", "recovery">> \notin res.writes
  /\ RecoveryOK => res.after["BMC"]["active"] = "good"
RestoresRecovery ==
  /\ Bmc.recovery # "Success" /\ ufm
  /\ <<"BMC", "recovery">> \in res.writes /\ <<"BMC", "active">> \notin res.writes
  /\ res.after["BMC"]["recovery"] = "good"
Restoring ==
  pc = "recover" /\ InUse =>
    /\ res.status = "VerifyActive" => RestoresActive
    /\ res.status = "VerifyRecovery" => RestoresRecovery
    /\ res.status = "Success" => Bmc.active = "Success" /\ Bmc.recovery = "Success" /\ res.writes = {}
    /\ res.status = "Failure" /\ Bmc.active = "Success" => res.writes = {}

\* A context for the active region does not name the secondary flash.
Named == \A e \in {"Bmc0", "Bmc1"} : ev[e].op = "VERIFY_ACTIVE" => ev[e].flash # "SECONDARY"

XInv == /\ NoFaults /\ Fresh /\ ActiveClaim /\ RecoveryClaim /\ Authenticating /\ OfBmc
        /\ Restoring /\ Named

-----------------------------------------------------------------------------
(* The queue                                                               *)

\* A nonempty set of naturals has a least element.
LEMMA LeastNatural ==
  ASSUME NEW S, S \subseteq Nat, S # {}
  PROVE  \E m \in S : \A k \in S : m <= k
<1> DEFINE R == {ss \in Nat \X Nat : ss[1] < ss[2]}
<1>1. OpToRel(<, Nat) = R
  BY Zenon DEF OpToRel
<1>2. IsWellFoundedOn(R, Nat)
  BY <1>1, NatLessThanWellFounded, Zenon
<1>3. PICK m \in S : \A k \in S : ~(<<k, m>> \in R)
  BY <1>2, WFMin, Zenon
<1>4. \A k \in S : ~(k < m)
  BY <1>3
<1> QED
  BY <1>4

\* If a verification waits, one is the first.
LEMMA FirstExists ==
  ASSUME NEW q \in Seq(SmcEvent), Waits(q, "VERIFY")
  PROVE  \E k \in 1..Len(q) : IsFirst(q, k)
<1> DEFINE S == {k \in 1..Len(q) : q[k].state = "VERIFY"}
<1>1. S # {} /\ S \subseteq Nat
  BY DEF Waits
<1>2. PICK m \in S : \A k \in S : m <= k
  BY <1>1, LeastNatural
<1>3. \A j \in 1..Len(q) : j < m => q[j].state # "VERIFY"
  BY <1>2
<1> QED
  BY <1>2, <1>3 DEF IsFirst

\* Taking the first event off.
LEMMA TailFirst ==
  ASSUME NEW q \in Seq(SmcEvent), q # <<>>, NEW E
  PROVE  /\ Head(q).state = "VERIFY" /\ Leads(q, E) => Head(q).ev \in E
         /\ Head(q).state # "VERIFY" /\ Leads(q, E) => Leads(Tail(q), E)
         /\ Head(q).state # "VERIFY" /\ AfterRecovery(q, E) => AfterRecovery(Tail(q), E)
         /\ Head(q).state = "RECOVERY" /\ AfterRecovery(q, E) => Follows(Tail(q), E)
<1> DEFINE r == Tail(q)
<1>1. /\ Len(r) = Len(q) - 1 /\ Len(q) \in Nat /\ Len(q) >= 1
      /\ \A k \in 1..Len(r) : r[k] = q[k + 1] /\ k + 1 \in 1..Len(q)
      /\ Head(q) = q[1] /\ 1 \in 1..Len(q)
  OBVIOUS
<1>2. \A k \in 1..Len(q) : k # 1 => k - 1 \in 1..Len(r) /\ q[k] = r[k - 1]
  OBVIOUS
<1> HIDE DEF r
<1>3. ASSUME Head(q).state = "VERIFY", Leads(q, E) PROVE Head(q).ev \in E
  <2>1. PICK k \in 1..Len(q) : IsFirst(q, k) /\ q[k].ev \in E
    BY <1>3 DEF Leads
  <2>2. k = 1
    BY <1>1, <1>3, <2>1 DEF IsFirst
  <2> QED BY <1>1, <2>1, <2>2
<1>4. ASSUME Head(q).state # "VERIFY", NEW k \in 1..Len(q), IsFirst(q, k)
      PROVE  k # 1 /\ IsFirst(r, k - 1)
  <2>1. k # 1
    BY <1>1, <1>4 DEF IsFirst
  <2>2. k - 1 \in 1..Len(r) /\ q[k] = r[k - 1]
    BY <1>2, <2>1
  <2>3. ASSUME NEW j \in 1..Len(r), j < k - 1 PROVE r[j].state # "VERIFY"
    <3>1. j + 1 \in 1..Len(q) /\ j + 1 < k /\ r[j] = q[j + 1]
      BY <1>1, <2>3
    <3> QED BY <1>4, <3>1 DEF IsFirst
  <2> QED BY <1>4, <2>1, <2>2, <2>3 DEF IsFirst
<1>5. ASSUME Head(q).state # "VERIFY", NEW k \in 1..Len(r), IsFirst(r, k)
      PROVE  k + 1 \in 1..Len(q) /\ q[k + 1] = r[k] /\ IsFirst(q, k + 1)
  <2>1. ASSUME NEW j \in 1..Len(q), j < k + 1 PROVE q[j].state # "VERIFY"
    <3>1. CASE j = 1
      BY <1>1, <1>5, <3>1
    <3>2. CASE j # 1
      <4>1. j - 1 \in 1..Len(r) /\ q[j] = r[j - 1] /\ j - 1 < k
        BY <1>2, <2>1, <3>2
      <4> QED BY <1>5, <4>1 DEF IsFirst
    <3> QED BY <3>1, <3>2
  <2> QED BY <1>1, <1>5, <2>1 DEF IsFirst
<1>6. ASSUME Head(q).state # "VERIFY", Leads(q, E) PROVE Leads(r, E)
  <2>1. PICK k \in 1..Len(q) : IsFirst(q, k) /\ q[k].ev \in E
    BY <1>6 DEF Leads
  <2>2. k - 1 \in 1..Len(r) /\ IsFirst(r, k - 1) /\ r[k - 1] = q[k]
    BY <1>2, <1>4, <1>6, <2>1
  <2> QED BY <2>1, <2>2 DEF Leads
<1>7. ASSUME Head(q).state # "VERIFY", AfterRecovery(q, E) PROVE AfterRecovery(r, E)
  <2>1. ASSUME NEW j \in 1..Len(r), NEW k \in 1..Len(r), j < k, r[j].state = "RECOVERY", IsFirst(r, k)
        PROVE  r[k].ev \in E
    <3>1. j + 1 \in 1..Len(q) /\ j + 1 < k + 1 /\ q[j + 1].state = "RECOVERY"
      BY <1>1, <2>1
    <3>2. k + 1 \in 1..Len(q) /\ q[k + 1] = r[k] /\ IsFirst(q, k + 1)
      BY <1>5, <1>7, <2>1
    <3> QED BY <1>7, <3>1, <3>2 DEF AfterRecovery
  <2> QED BY <2>1 DEF AfterRecovery
<1>8. ASSUME Head(q).state = "RECOVERY", AfterRecovery(q, E) PROVE Follows(r, E)
  <2>1. ASSUME NEW k \in 1..Len(r), IsFirst(r, k) PROVE r[k].ev \in E
    <3>1. k + 1 \in 1..Len(q) /\ q[k + 1] = r[k] /\ IsFirst(q, k + 1) /\ 1 < k + 1
      BY <1>5, <1>8, <2>1
    <3> QED BY <1>1, <1>8, <3>1 DEF AfterRecovery
  <2> QED BY <2>1 DEF Follows
<1> QED
  BY <1>3, <1>6, <1>7, <1>8 DEF r

\* The queue r is q with more events behind it.
Longer(q, r) ==
  /\ r \in Seq(SmcEvent) /\ Len(q) <= Len(r)
  /\ \A k \in 1..Len(q) : r[k] = q[k]

\* Events that come later change nothing about the first verification.
LEMMA LongerFirst ==
  ASSUME NEW q \in Seq(SmcEvent), NEW r, Longer(q, r), NEW E
  PROVE  /\ Leads(q, E) => Leads(r, E)
         /\ \A k \in 1..Len(q) : IsFirst(r, k) => IsFirst(q, k)
<1>1. /\ Len(q) \in Nat /\ Len(r) \in Nat /\ Len(q) <= Len(r)
      /\ \A k \in 1..Len(q) : k \in 1..Len(r) /\ r[k] = q[k]
  BY DEF Longer
<1>2. ASSUME Leads(q, E) PROVE Leads(r, E)
  <2>1. PICK k \in 1..Len(q) : IsFirst(q, k) /\ q[k].ev \in E
    BY <1>2 DEF Leads
  <2>2. \A j \in 1..Len(r) : j < k => j \in 1..Len(q)
    BY <1>1
  <2>3. IsFirst(r, k)
    BY <1>1, <2>1, <2>2 DEF IsFirst
  <2> QED BY <1>1, <2>1, <2>3 DEF Leads
<1>3. \A k \in 1..Len(q) : IsFirst(r, k) => IsFirst(q, k)
  BY <1>1 DEF IsFirst
<1> QED
  BY <1>2, <1>3

\* A posted event comes last.
LEMMA PostLonger ==
  ASSUME NEW q \in Seq(SmcEvent), NEW e, e \in {"Bmc0", "Bmc1"},
         NEW r, r = post_smc_action(q, "VERIFY", "Bmc", e)
  PROVE  /\ Longer(q, r)
         /\ Len(q) < QMax => /\ Len(r) = Len(q) + 1
                             /\ r[Len(r)].state = "VERIFY" /\ r[Len(r)].ev = e
<1> DEFINE x == [state |-> "VERIFY", ao |-> "Bmc", ev |-> e]
<1>1. x \in SmcEvent /\ x.state = "VERIFY" /\ x.ev = e
  BY DEF SmcEvent, Events, AOs, Evs
<1>2. r = IF Len(q) < QMax THEN Append(q, x) ELSE q
  BY DEF post_smc_action
<1> HIDE DEF x
<1> QED
  BY <1>1, <1>2 DEF Longer

\* A verification that is posted while no other waits is the first.
LEMMA PostLeads ==
  ASSUME NEW q \in Seq(SmcEvent), NEW e, e \in {"Bmc0", "Bmc1"}, Len(q) < QMax,
         NEW E, e \in E, Follows(q, E),
         NEW r, r = post_smc_action(q, "VERIFY", "Bmc", e)
  PROVE  Leads(r, E)
<1>1. Longer(q, r) /\ Len(r) = Len(q) + 1 /\ r[Len(r)].state = "VERIFY" /\ r[Len(r)].ev = e
  BY PostLonger
<1>2. CASE Waits(q, "VERIFY")
  <2>1. Leads(q, E)
    BY <1>2, FirstExists DEF Leads, Follows
  <2> QED BY <1>1, <2>1, LongerFirst
<1>3. CASE ~Waits(q, "VERIFY")
  <2>1. Len(q) \in Nat /\ Len(r) \in 1..Len(r) /\ \A j \in 1..Len(r) : j < Len(r) => j \in 1..Len(q)
    BY <1>1
  <2>2. \A j \in 1..Len(r) : j < Len(r) => r[j].state # "VERIFY"
    BY <1>1, <1>3, <2>1 DEF Longer, Waits
  <2>3. IsFirst(r, Len(r))
    BY <1>1, <2>1, <2>2 DEF IsFirst
  <2> QED BY <1>1, <2>1, <2>3 DEF Leads
<1> QED
  BY <1>2, <1>3

\* Where no recovery comes before a verification, none is followed by one.
LEMMA NoneAfter ==
  ASSUME NEW q, NEW E, ~Before(q, "RECOVERY", "VERIFY")
  PROVE  AfterRecovery(q, E)
  BY DEF Before, AfterRecovery, IsFirst

-----------------------------------------------------------------------------
(* Flash operations on the BMC                                             *)

\* An operation that puts c into region r of the BMC rewrites r and no other
\* region of the BMC.
LEMMA PutWrites ==
  ASSUME NEW f \in Flash, NEW r \in Regions, NEW c, NEW st, NEW b,
         NEW o, o = Outcome(st, f, Put(f, "BMC", r, c), {<<"BMC", r>>}, b)
  PROVE  /\ o.status = st /\ o.fault = b /\ <<"BMC", r>> \in o.writes
         /\ \A s \in Regions : s # r => <<"BMC", s>> \notin o.writes
         /\ o.after["BMC"][r] = c
<1> DEFINE g == Put(f, "BMC", r, c)
<1>1. g["BMC"][r] = c /\ \A s \in Regions : s # r => g["BMC"][s] = f["BMC"][s]
  BY DEF Put, Flash, Images
<1> HIDE DEF g
<1>2. /\ o.status = st /\ o.fault = b /\ o.after = g
      /\ o.writes = {<<"BMC", r>>} \cup {w \in Images \X Regions : f[w[1]][w[2]] # g[w[1]][w[2]]}
  BY DEF Outcome, g
<1>3. ASSUME NEW s \in Regions, s # r PROVE <<"BMC", s>> \notin o.writes
  BY <1>1, <1>2, <1>3
<1> QED
  BY <1>1, <1>2, <1>3

\* Erasing and writing touch what the operation rewrites and nothing else.
LEMMA TouchesWrites ==
  ASSUME NEW f, NEW o, NEW r \in Regions
  PROVE  /\ <<"BMC", r>> \notin o.writes =>
              Erased(f, o)["BMC"][r] = f["BMC"][r] /\ Written(f, o)["BMC"][r] = f["BMC"][r]
         /\ <<"BMC", r>> \in o.writes => Written(f, o)["BMC"][r] = o.after["BMC"][r]
  BY DEF Erased, Written, Images

\* With no fault left none is made.
LEMMA SpendNone ==
  ASSUME TypeOK, left.fault = 0, NEW faults, IsFiniteSet(faults), Spend(faults)
  PROVE  left'.fault = 0 /\ faults = {}
<1>1. Cardinality(faults) \in Nat /\ Cardinality(faults) <= 0
  BY FS_CardinalityType DEF Spend
<1>2. Cardinality(faults) = 0
  BY <1>1
<1> QED
  BY <1>2, FS_EmptySet DEF Spend, TypeOK

\* The ways recover_image ends for the BMC when no write goes wrong.
LEMMA RecoverWays ==
  ASSUME TypeOK, NEW d, NEW o \in recover_image(d, "BMC"), ~o.fault
  PROVE  /\ o.status = "VerifyActive" =>
              /\ d.active # "Success" /\ d.recovery = "Success"
              /\ <<"BMC", "active">> \in o.writes /\ <<"BMC", "recovery">> \notin o.writes
              /\ RecoveryOK => o.after["BMC"]["active"] = "good"
         /\ o.status = "VerifyRecovery" =>
              /\ d.recovery # "Success" /\ ufm
              /\ <<"BMC", "recovery">> \in o.writes /\ <<"BMC", "active">> \notin o.writes
              /\ o.after["BMC"]["recovery"] = "good"
         /\ o.status = "Success" => d.active = "Success" /\ d.recovery = "Success" /\ o.writes = {}
         /\ o.status = "Failure" /\ d.active = "Success" => o.writes = {}
         /\ d.active = "Success" => <<"BMC", "active">> \notin o.writes
         /\ d.recovery = "Success" => <<"BMC", "recovery">> \notin o.writes
<1>1. flash \in Flash /\ "active" \in Regions /\ "recovery" \in Regions
  BY DEF TypeOK, Regions
<1>2. ASSUME NEW st \in {"Success", "Failure"}
      PROVE  Untouched(st, flash).writes = {} /\ Untouched(st, flash).status = st
  BY <1>1, UntouchedType
<1>3. CASE d.recovery # "Success"
  <2>1. RecoverySources(d, "BMC") = IF ufm /\ flash["BMC"]["staging"] = "good" THEN {flash} ELSE {}
    BY DEF RecoverySources
  <2>2. \/ o = Untouched("Failure", flash)
        \/ /\ ufm
           /\ o \in {Outcome("VerifyRecovery", flash, Put(flash, "BMC", "recovery", "good"),
                             {<<"BMC", "recovery">>}, FALSE),
                     Outcome("Failure", flash, Put(flash, "BMC", "recovery", "bad"),
                             {<<"BMC", "recovery">>}, TRUE)}
    BY <1>3, <2>1 DEF recover_image
  <2>3. CASE o = Untouched("Failure", flash)
    BY <1>2, <1>3, <2>3
  <2>4. CASE ufm /\ o = Outcome("VerifyRecovery", flash, Put(flash, "BMC", "recovery", "good"),
                                {<<"BMC", "recovery">>}, FALSE)
    <3>1. PICK b : o = Outcome("VerifyRecovery", flash, Put(flash, "BMC", "recovery", "good"),
                               {<<"BMC", "recovery">>}, b)
      BY <2>4, Zenon
    <3>2. /\ o.status = "VerifyRecovery" /\ <<"BMC", "recovery">> \in o.writes
          /\ <<"BMC", "active">> \notin o.writes /\ o.after["BMC"]["recovery"] = "good"
      BY <1>1, <3>1, PutWrites
    <3> QED BY <1>3, <2>4, <3>2
  <2>5. ASSUME o = Outcome("Failure", flash, Put(flash, "BMC", "recovery", "bad"),
                           {<<"BMC", "recovery">>}, TRUE)
        PROVE  FALSE
    <3>1. o.fault = TRUE
      BY <2>5 DEF Outcome
    <3> QED BY <3>1
  <2> QED BY <2>2, <2>3, <2>4, <2>5
<1>4. CASE d.recovery = "Success" /\ d.active = "Success"
  <2>1. o = Untouched("Success", flash)
    BY <1>4 DEF recover_image
  <2> QED BY <1>2, <1>4, <2>1
<1>5. CASE d.recovery = "Success" /\ d.active # "Success"
  <2>1. \/ o = Untouched("Failure", flash)
        \/ /\ RecoveryOK
           /\ o = Outcome("VerifyActive", flash, Put(flash, "BMC", "active", "good"),
                          {<<"BMC", "active">>}, FALSE)
        \/ \E st \in {"VerifyActive", "Failure"} :
             o = Outcome(st, flash, Put(flash, "BMC", "active", "bad"),
                         {<<"BMC", "active">>}, RecoveryOK)
    BY <1>5 DEF recover_image, RecoveryOK
  <2>2. CASE o = Untouched("Failure", flash)
    BY <1>2, <1>5, <2>2
  <2>3. CASE o = Outcome("VerifyActive", flash, Put(flash, "BMC", "active", "good"),
                         {<<"BMC", "active">>}, FALSE)
    <3>1. PICK b : o = Outcome("VerifyActive", flash, Put(flash, "BMC", "active", "good"),
                               {<<"BMC", "active">>}, b)
      BY <2>3, Zenon
    <3>2. /\ o.status = "VerifyActive" /\ <<"BMC", "active">> \in o.writes
          /\ <<"BMC", "recovery">> \notin o.writes /\ o.after["BMC"]["active"] = "good"
      BY <1>1, <3>1, PutWrites
    <3> QED BY <1>5, <3>2
  <2>4. CASE \E st \in {"VerifyActive", "Failure"} :
               o = Outcome(st, flash, Put(flash, "BMC", "active", "bad"),
                           {<<"BMC", "active">>}, RecoveryOK)
    <3>1. PICK st \in {"VerifyActive", "Failure"} :
            o = Outcome(st, flash, Put(flash, "BMC", "active", "bad"),
                        {<<"BMC", "active">>}, RecoveryOK)
      BY <2>4
    <3>2. /\ o.status = st /\ o.fault = RecoveryOK /\ <<"BMC", "active">> \in o.writes
          /\ <<"BMC", "recovery">> \notin o.writes
      BY <1>1, <3>1, PutWrites
    <3> QED BY <1>5, <3>1, <3>2
  <2> QED BY <2>1, <2>2, <2>3, <2>4
<1> QED
  BY <1>3, <1>4, <1>5

-----------------------------------------------------------------------------
(* One lemma per action                                                    *)

\* An object that is not in use makes no claim.
LEMMA NotInUseX ==
  ASSUME ~InUse', pc' # "auth", left'.fault = 0, Named'
  PROVE  XInv'
  BY DEF XInv, NoFaults, Fresh, ActiveClaim, RecoveryClaim, Authenticating, OfBmc, Restoring

\* Nor does one whose regions are both marked as failed.
LEMMA FailedX ==
  ASSUME Bmc'.active # "Success", Bmc'.recovery # "Success", Bmc'.type = "BMC",
         pc' \notin {"auth", "recover"}, cur' # "RECOVERY" \/ pc' = "parent",
         left'.fault = 0, Named'
  PROVE  XInv'
  BY DEF XInv, NoFaults, Fresh, ActiveClaim, RecoveryClaim, Authenticating, OfBmc, Restoring, Inside

\* A step that leaves the main thread, the contexts, the BMC's flash and what
\* its object says alone preserves the invariant.
LEMMA QuietX ==
  ASSUME XInv, UNCHANGED <<cur, ctx, pc, res, evq, ev, ufm>>,
         flash'["BMC"] = flash["BMC"], left'.fault = left.fault,
         Bmc'.active = Bmc.active, Bmc'.recovery = Bmc.recovery, Bmc'.type = Bmc.type,
         InUse' = InUse, ao'["I2c"].pnc = ao["I2c"].pnc
  PROVE  XInv'
<1>1. ActiveOK' = ActiveOK /\ RecoveryOK' = RecoveryOK /\ ActiveEvs' = ActiveEvs
  BY DEF ActiveOK, RecoveryOK, ActiveEvs
<1>2. NoFaults' /\ Fresh' /\ OfBmc' /\ Named' /\ Authenticating'
  BY <1>1 DEF XInv, NoFaults, Fresh, OfBmc, Named, Authenticating, Inside
<1>3. ActiveClaim' /\ RecoveryClaim'
  BY <1>1 DEF XInv, ActiveClaim, RecoveryClaim, Inside
<1>4. Restoring'
  BY <1>1 DEF XInv, Restoring, RestoresActive, RestoresRecovery
<1> QED
  BY <1>2, <1>3, <1>4 DEF XInv

\* The contexts of an object in use name the BMC.
LEMMA ImageNamed ==
  ASSUME IInv, InUse PROVE ev["Bmc0"].image = "BMC" /\ ev["Bmc1"].image = "BMC"
  BY DEF IInv, Booting, Running, InUse

\* run_verify up to the authentication.
LEMMA VerifyBeginX ==
  ASSUME IInv, QInv, XInv, VerifyBegin PROVE XInv'
<1>1. /\ cur = "VERIFY" /\ pc = "run" /\ UNCHANGED <<cur, ctx, evq, ao, ev, ufm, flash, left>>
      /\ left.fault = 0 /\ Named'
  BY DEF VerifyBegin, XInv, NoFaults, Named
<1>2. ctx.ao = "Bmc" /\ ctx.ev \in {"Bmc0", "Bmc1"} /\ ao["Bmc"].pnc \in {0, 1}
  BY <1>1, Contexts
<1>3. CASE ~InUse
  <2>1. pc' = "parent" /\ ~InUse'
    BY <1>1, <1>2, <1>3 DEF VerifyBegin, InUse
  <2> QED BY <1>1, <2>1, NotInUseX
<1>4. CASE InUse
  <2>1. pc' = "auth" /\ res' = authentication_image(ctx.ev) /\ InUse'
    BY <1>1, <1>2, <1>4 DEF VerifyBegin, InUse
  <2>2. ActiveOK' = ActiveOK /\ RecoveryOK' = RecoveryOK /\ ActiveEvs' = ActiveEvs
    BY <1>1 DEF ActiveOK, RecoveryOK, ActiveEvs
  <2>3. ctx.ev \in ActiveEvs => res' = Untouched(IF ActiveOK THEN "Success" ELSE "Failure", flash)
    <3>1. ev[ctx.ev].image = "BMC"
      BY <1>2, <1>4, ImageNamed
    <3> QED BY <2>1, <3>1 DEF authentication_image, ActiveEvs, ActiveOK
  <2>4. ctx.ev \in ActiveEvs /\ res'.status = "Success" => ActiveOK
    <3>1. Untouched("Failure", flash).status = "Failure"
      BY UntouchedType DEF IInv, TypeOK
    <3> QED BY <2>3, <3>1
  <2>5. Authenticating'
    BY <1>1, <2>1, <2>2, <2>4 DEF Authenticating
  <2>6. ActiveClaim' /\ RecoveryClaim'
    BY <1>1, <2>1, <2>2 DEF XInv, ActiveClaim, RecoveryClaim, Inside, InUse, Bmc
  <2>7. NoFaults' /\ Fresh' /\ OfBmc' /\ Restoring'
    BY <1>1, <2>1 DEF XInv, NoFaults, Fresh, OfBmc, Restoring, Inside, InUse, Bmc
  <2> QED BY <1>1, <2>5, <2>6, <2>7 DEF XInv
<1> QED
  BY <1>3, <1>4

\* What handleImageVerification writes into the object.
LEMMA VerifiedFields ==
  ASSUME NEW d \in AoData, NEW e \in Evs, NEW st \in Status, NEW x, x = Verified(d, e, st)
  PROVE  /\ x \in AoData /\ x.pnc = d.pnc /\ x.type = d.type
         /\ e \in ActiveEvs => x.active = st /\ x.recovery = d.recovery
         /\ e \notin ActiveEvs => x.active = d.active /\ x.recovery = st
  BY DEF AoData, Verified, ActiveEvs

\* handlePostVerifySuccess that does not release: the region just verified is
\* the one marked, or a recovery has been posted for it already.
LEMMA VerifySucceedsX ==
  ASSUME IInv, QInv, XInv, VerifySucceeds PROVE XInv'
<1>1. /\ cur = "VERIFY" /\ pc = "auth" /\ pc' = "parent" /\ res.status = "Success"
      /\ UNCHANGED <<cur, ctx, evq, ev, ufm, flash, left>> /\ left.fault = 0 /\ Named'
  BY DEF VerifySucceeds, IInv, Handling, XInv, NoFaults, Named
<1>2. ctx.ao = "Bmc" /\ ctx.ev \in {"Bmc0", "Bmc1"} /\ ctx.ev \in Evs /\ "Bmc" \in AOs
      /\ ao["Bmc"] \in AoData
  BY <1>1, Contexts, Objects DEF IInv, Evs
<1>3. InUse /\ (ctx.ev \in ActiveEvs => ActiveOK)
  BY <1>1 DEF XInv, Authenticating
<1> DEFINE d == Verified(ao["Bmc"], ctx.ev, "Success")
           done == d.active = "Success" /\ d.recovery = "Success"
           x == IF done THEN [d EXCEPT !.pnc = 0] ELSE d
<1>4. /\ d \in AoData /\ d.pnc = ao["Bmc"].pnc /\ d.type = ao["Bmc"].type
      /\ ctx.ev \in ActiveEvs => d.active = "Success" /\ d.recovery = ao["Bmc"].recovery
      /\ ctx.ev \notin ActiveEvs => d.active = ao["Bmc"].active /\ d.recovery = "Success"
  BY <1>2, VerifiedFields DEF Status
<1>5. x \in AoData /\ (done => x.pnc = 0)
  BY <1>4 DEF AoData
<1>6. ao' = [ao EXCEPT !["Bmc"] = x]
  BY <1>2 DEF VerifySucceeds
<1> HIDE DEF x, d
<1>7. Bmc' = x /\ ao'["I2c"] = ao["I2c"]
  BY <1>2, <1>5, <1>6, AoStore DEF IInv, AOs, Bmc
<1>8. CASE done
  <2>1. ~InUse'
    BY <1>5, <1>7, <1>8 DEF InUse, Bmc
  <2> QED BY <1>1, <2>1, NotInUseX
<1>9. CASE ~done
  <2>1. Bmc' = d
    BY <1>7, <1>9 DEF x
  <2>2. ao["I2c"].pnc # 1 /\ ~Before(evq, "RECOVERY", "VERIFY")
    BY <1>1, <1>3 DEF QInv, Commanded, Blocks, Inside
  <2>3. AfterRecovery(evq, ActiveEvs')
    BY <2>2, NoneAfter
  <2>4. ActiveOK' = ActiveOK
    BY <1>1 DEF ActiveOK
  <2>5. ActiveClaim'
    BY <1>3, <1>4, <1>9, <2>1, <2>4 DEF ActiveClaim
  <2>6. RecoveryClaim'
    BY <1>1, <2>3 DEF RecoveryClaim, Inside
  <2>7. NoFaults' /\ Fresh' /\ Authenticating' /\ Restoring'
    BY <1>1, <1>7, <2>2 DEF NoFaults, Fresh, Authenticating, Restoring
  <2>8. OfBmc'
    BY <1>3, <1>4, <2>1 DEF XInv, OfBmc, Bmc
  <2> QED BY <1>1, <2>5, <2>6, <2>7, <2>8 DEF XInv
<1> QED
  BY <1>8, <1>9

\* handlePostVerifyFailure: a failed verification of the recovery region says
\* nothing about an active one that is marked Success.
LEMMA VerifyFailsX ==
  ASSUME IInv, QInv, XInv, VerifyFails PROVE XInv'
<1>1. /\ cur = "VERIFY" /\ pc = "auth" /\ pc' = "parent"
      /\ UNCHANGED <<cur, ctx, ufm, flash, left>> /\ left.fault = 0
  BY DEF VerifyFails, IInv, Handling, XInv, NoFaults
<1>2. ctx.ao = "Bmc" /\ ctx.ev \in {"Bmc0", "Bmc1"} /\ ctx.ev \in Evs /\ "Bmc" \in AOs
      /\ ao["Bmc"] \in AoData
  BY <1>1, Contexts, Objects DEF IInv, Evs
<1>3. InUse
  BY <1>1 DEF XInv, Authenticating
<1> DEFINE d == Verified(ao["Bmc"], ctx.ev, "Failure")
           x == [d EXCEPT !.prev = "Verify"]
<1>4. /\ d \in AoData /\ d.pnc = ao["Bmc"].pnc /\ d.type = ao["Bmc"].type
      /\ ctx.ev \in ActiveEvs => d.active = "Failure" /\ d.recovery = ao["Bmc"].recovery
      /\ ctx.ev \notin ActiveEvs => d.active = ao["Bmc"].active /\ d.recovery = "Failure"
  BY <1>2, VerifiedFields DEF Status
<1>5. x \in AoData /\ x.type = d.type /\ x.active = d.active /\ x.recovery = d.recovery
  BY <1>4 DEF AoData
<1>6. /\ ao' = [ao EXCEPT !["Bmc"] = x]
      /\ ev' = [ev EXCEPT ![ctx.ev].op = "RECOVER_ACTIVE"]
      /\ evq' = post_smc_action(evq, "RECOVERY", "Bmc", ctx.ev)
  BY <1>2, <1>3, <1>4 DEF VerifyFails, InUse
<1> HIDE DEF x, d
<1>7. Bmc' = x /\ ao'["I2c"] = ao["I2c"]
  BY <1>2, <1>5, <1>6, AoStore DEF IInv, AOs, Bmc
<1>8. Named'
  <2>1. ev \in [Evs -> EventContext] /\ "Bmc0" \in Evs /\ "Bmc1" \in Evs
    BY DEF IInv, TypeOK, Evs
  <2>2. /\ \A e \in Evs : e # ctx.ev => ev'[e] = ev[e]
        /\ ev'[ctx.ev].op = "RECOVER_ACTIVE"
    BY <1>2, <1>6, <2>1 DEF EventContext
  <2> QED BY <1>2, <2>1, <2>2 DEF XInv, Named
<1>9. ao["I2c"].pnc # 1 /\ ~Before(evq, "RECOVERY", "VERIFY")
  BY <1>1, <1>3 DEF QInv, Commanded, Blocks, Inside
<1>10. AfterRecovery(evq', ActiveEvs')
  <2>1. [state |-> "RECOVERY", ao |-> "Bmc", ev |-> ctx.ev] \in SmcEvent
    BY <1>2 DEF SmcEvent, Events, AOs
  <2>2. \A s, t : Before(evq', s, t) => Before(evq, s, t) \/ (t = "RECOVERY" /\ Waits(evq, s))
    BY <1>6, <2>1, PostOrder, Contexts
  <2>3. ~Before(evq', "RECOVERY", "VERIFY")
    BY <1>9, <2>2
  <2> QED BY <2>3, NoneAfter
<1>11. ActiveClaim'
  <2>1. Bmc'.active = "Success" => ActiveOK
    BY <1>1, <1>3, <1>4, <1>5, <1>7 DEF XInv, ActiveClaim, Inside, Bmc
  <2>2. ActiveOK' = ActiveOK
    BY <1>1 DEF ActiveOK
  <2> QED BY <2>1, <2>2 DEF ActiveClaim
<1>12. RecoveryClaim'
  BY <1>1, <1>10 DEF RecoveryClaim, Inside
<1>13. NoFaults' /\ Fresh' /\ Authenticating' /\ Restoring'
  BY <1>1, <1>7, <1>9 DEF NoFaults, Fresh, Authenticating, Restoring
<1>14. OfBmc'
  BY <1>3, <1>4, <1>5, <1>7 DEF XInv, OfBmc, Bmc
<1> QED
  BY <1>8, <1>11, <1>12, <1>13, <1>14 DEF XInv

\* run_recovery up to the flash work: it erases neither a region that is marked
\* Success nor, with the active region, the one it is restored from.
LEMMA RecoverBeginX ==
  ASSUME IInv, QInv, XInv, RecoverBegin PROVE XInv'
<1>1. /\ cur = "RECOVERY" /\ pc = "run" /\ pc' = "recover"
      /\ UNCHANGED <<cur, ctx, evq, ao, ev, ufm>> /\ left.fault = 0 /\ Named'
  BY DEF RecoverBegin, XInv, NoFaults, Named
<1>2. ctx.ao = "Bmc" /\ ctx.ev \in {"Bmc0", "Bmc1"} /\ ao["Bmc"].pnc \in {0, 1}
  BY <1>1, Contexts
<1>3. CASE ~InUse
  <2>1. ~InUse' /\ UNCHANGED left
    BY <1>1, <1>2, <1>3 DEF RecoverBegin, InUse
  <2> QED BY <1>1, <2>1, NotInUseX
<1>4. CASE InUse
  <2>1. ev[ctx.ev].image = "BMC"
    BY <1>2, <1>4, ImageNamed
  <2>2. PICK o \in recover_image(Bmc, "BMC") :
          Spend({x \in {o} : x.fault}) /\ res' = o /\ flash' = Erased(flash, o)
    <3> DEFINE i == IF ev[ctx.ev].image = "BMC" THEN "BMC" ELSE "PCH"
    <3>1. ao[ctx.ao].pnc # 0 /\ ao[ctx.ao] = Bmc /\ i = "BMC"
      BY <1>2, <1>4, <2>1 DEF InUse, Bmc
    <3>2. \E o \in recover_image(ao[ctx.ao], i) :
            Spend({x \in {o} : x.fault}) /\ res' = o /\ flash' = Erased(flash, o)
      BY <3>1 DEF RecoverBegin
    <3> HIDE DEF i
    <3> QED BY <3>1, <3>2
  <2>3. left'.fault = 0 /\ ~o.fault
    <3>1. IsFiniteSet({x \in {o} : x.fault})
      BY FS_Singleton, FS_Subset
    <3>2. left'.fault = 0 /\ {x \in {o} : x.fault} = {}
      BY <1>1, <2>2, <3>1, SpendNone DEF IInv
    <3> QED BY <3>2
  <2>4. /\ res'.status = "VerifyActive" =>
             /\ Bmc.active # "Success" /\ Bmc.recovery = "Success"
             /\ <<"BMC", "active">> \in res'.writes /\ <<"BMC", "recovery">> \notin res'.writes
             /\ RecoveryOK => res'.after["BMC"]["active"] = "good"
        /\ res'.status = "VerifyRecovery" =>
             /\ Bmc.recovery # "Success" /\ ufm
             /\ <<"BMC", "recovery">> \in res'.writes /\ <<"BMC", "active">> \notin res'.writes
             /\ res'.after["BMC"]["recovery"] = "good"
        /\ res'.status = "Success" =>
             Bmc.active = "Success" /\ Bmc.recovery = "Success" /\ res'.writes = {}
        /\ res'.status = "Failure" /\ Bmc.active = "Success" => res'.writes = {}
        /\ Bmc.active = "Success" => <<"BMC", "active">> \notin res'.writes
        /\ Bmc.recovery = "Success" => <<"BMC", "recovery">> \notin res'.writes
    BY <2>2, <2>3, RecoverWays DEF IInv
  <2>5. /\ <<"BMC", "active">> \notin res'.writes => ActiveOK' = ActiveOK
        /\ <<"BMC", "recovery">> \notin res'.writes => RecoveryOK' = RecoveryOK
    BY <1>1, <2>2, TouchesWrites DEF ActiveOK, RecoveryOK, Regions
  <2>6. ActiveEvs' = ActiveEvs /\ Bmc' = Bmc /\ InUse'
    BY <1>1, <1>4 DEF ActiveEvs, Bmc, InUse
  <2>7. ActiveClaim' /\ RecoveryClaim'
    BY <1>1, <1>4, <2>4, <2>5, <2>6 DEF XInv, ActiveClaim, RecoveryClaim, Inside
  <2>8. Restoring'
    BY <1>1, <2>4, <2>5, <2>6 DEF Restoring, RestoresActive, RestoresRecovery
  <2>9. NoFaults' /\ Fresh' /\ Authenticating' /\ OfBmc'
    BY <1>1, <1>4, <2>3, <2>6 DEF XInv, NoFaults, Fresh, Authenticating, OfBmc, Inside
  <2> QED BY <1>1, <2>7, <2>8, <2>9 DEF XInv
<1> QED
  BY <1>3, <1>4

\* handlePostRecoverySuccess: an active region restored from a bad recovery
\* region is verified before anything is released.
LEMMA RecoverSucceedsX ==
  ASSUME IInv, QInv, XInv, RecoverSucceeds PROVE XInv'
<1>1. /\ cur = "RECOVERY" /\ pc = "recover" /\ pc' = "parent" /\ UNCHANGED <<cur, ctx, ufm, left>>
      /\ left.fault = 0 /\ flash' = Written(flash, res) /\ res.status # "Failure"
  BY DEF RecoverSucceeds, IInv, Handling, XInv, NoFaults
<1>2. ctx.ao = "Bmc" /\ ctx.ev \in {"Bmc0", "Bmc1"} /\ ctx.ev \in Evs /\ "Bmc" \in AOs
      /\ ao["Bmc"] \in AoData /\ evq \in Seq(SmcEvent)
  BY <1>1, Contexts, Objects DEF IInv, Evs
<1>3. /\ Bmc'.pnc = Bmc.pnc /\ Bmc'.type = Bmc.type /\ ao'["I2c"] = ao["I2c"]
      /\ Bmc'.active = IF res.status = "VerifyActive" THEN "Success" ELSE Bmc.active
      /\ Bmc'.recovery = IF res.status = "VerifyRecovery" THEN "Success" ELSE Bmc.recovery
  <2> DEFINE x == [ao["Bmc"] EXCEPT !.prev = "Recovery",
                     !.active = IF res.status = "VerifyActive" THEN "Success" ELSE @,
                     !.recovery = IF res.status = "VerifyRecovery" THEN "Success" ELSE @]
  <2>1. /\ x \in AoData /\ x.pnc = ao["Bmc"].pnc /\ x.type = ao["Bmc"].type
        /\ x.active = IF res.status = "VerifyActive" THEN "Success" ELSE ao["Bmc"].active
        /\ x.recovery = IF res.status = "VerifyRecovery" THEN "Success" ELSE ao["Bmc"].recovery
    BY <1>2 DEF AoData, Status
  <2>2. ao' = [ao EXCEPT !["Bmc"] = x]
    BY <1>2 DEF RecoverSucceeds
  <2> HIDE DEF x
  <2> QED BY <1>2, <2>1, <2>2, AoStore DEF IInv, AOs, Bmc
<1> DEFINE fl == CASE res.status = "VerifyActive" -> "PRIMARY"
                   [] res.status = "VerifyRecovery" -> "SECONDARY"
                   [] OTHER -> ev[ctx.ev].flash
<1>4. /\ \A e \in Evs : e # ctx.ev => ev'[e] = ev[e]
      /\ ev'[ctx.ev].flash = fl
      /\ ev'[ctx.ev].op = IF fl = "SECONDARY" THEN "VERIFY_BACKUP" ELSE "VERIFY_ACTIVE"
  <2>1. ev \in [Evs -> EventContext]
    BY DEF IInv, TypeOK
  <2>2. ev' = [ev EXCEPT ![ctx.ev] =
                 [@ EXCEPT !.flash = fl,
                           !.op = IF fl = "SECONDARY" THEN "VERIFY_BACKUP" ELSE "VERIFY_ACTIVE"]]
    BY DEF RecoverSucceeds
  <2> HIDE DEF fl
  <2> QED BY <1>2, <2>1, <2>2 DEF EventContext
<1>5. /\ res.status = "VerifyActive" => fl = "PRIMARY"
      /\ res.status \notin {"VerifyActive", "VerifyRecovery"} => fl = ev[ctx.ev].flash
  OBVIOUS
<1> HIDE DEF fl
<1>6. Named'
  BY <1>2, <1>4 DEF XInv, Named, Evs
<1>7. CASE ~InUse
  <2>1. ~InUse'
    BY <1>3, <1>7 DEF InUse, Bmc
  <2> QED BY <1>1, <1>6, <2>1, NotInUseX
<1>8. CASE InUse
  <2>1. /\ res.status = "VerifyActive" => RestoresActive
        /\ res.status = "VerifyRecovery" => RestoresRecovery
        /\ res.status = "Success" => Bmc.active = "Success" /\ Bmc.recovery = "Success" /\ res.writes = {}
    BY <1>1, <1>8 DEF XInv, Restoring
  <2>2. InUse'
    BY <1>3, <1>8 DEF InUse, Bmc
  <2>3. ao["I2c"].pnc # 1
    BY <1>1, <1>8 DEF XInv, Fresh, Inside
  <2>4. NoFaults' /\ Fresh' /\ Authenticating' /\ OfBmc' /\ Restoring'
    BY <1>1, <1>3, <1>8, <2>3 DEF XInv, NoFaults, Fresh, Authenticating, OfBmc, Restoring
  <2>5. Len(evq) < QMax
    BY <1>1, <1>8 DEF QInv, Room
  <2>6. /\ <<"BMC", "active">> \notin res.writes => ActiveOK' = ActiveOK
        /\ <<"BMC", "active">> \in res.writes => ActiveOK' = (ufm /\ res.after["BMC"]["active"] = "good")
        /\ <<"BMC", "recovery">> \in res.writes => RecoveryOK' = (ufm /\ res.after["BMC"]["recovery"] = "good")
    BY <1>1, TouchesWrites DEF ActiveOK, RecoveryOK, Regions
  <2>7. CASE res.status = "VerifyActive"
    <3>1. RecoveryClaim'
      BY <1>3, <2>7 DEF RecoveryClaim
    <3>2. CASE RecoveryOK
      <4>1. ActiveOK'
        BY <2>1, <2>6, <2>7, <3>2 DEF RestoresActive, RecoveryOK
      <4> QED BY <1>6, <2>4, <3>1, <4>1 DEF XInv, ActiveClaim
    <3>3. CASE ~RecoveryOK
      <4>1. Follows(evq, ActiveEvs)
        BY <1>1, <1>8, <2>1, <2>7, <3>3 DEF XInv, RecoveryClaim, Inside, RestoresActive
      <4>2. ActiveEvs \subseteq ActiveEvs' /\ ctx.ev \in ActiveEvs'
        BY <1>2, <1>4, <1>5, <2>7 DEF ActiveEvs
      <4>3. Follows(evq, ActiveEvs')
        BY <4>1, <4>2 DEF Follows
      <4>4. PICK once : once = post_smc_action(evq, "VERIFY", "Bmc", ctx.ev)
        OBVIOUS
      <4>5. Leads(once, ActiveEvs') /\ once \in Seq(SmcEvent)
        BY <1>2, <2>5, <4>2, <4>3, <4>4, PostLeads, PostVerify
      <4>6. evq' = post_smc_action(once, "VERIFY", "Bmc", ctx.ev)
        BY <1>2, <2>7, <4>4 DEF RecoverSucceeds
      <4>7. Longer(once, evq')
        BY <1>2, <4>5, <4>6, PostLonger
      <4>8. Leads(evq', ActiveEvs')
        BY <4>5, <4>7, LongerFirst
      <4>9. ActiveClaim'
        BY <1>1, <1>3, <2>1, <2>7, <4>8 DEF ActiveClaim, Inside, RestoresActive
      <4> QED BY <1>6, <2>4, <3>1, <4>9 DEF XInv
    <3> QED BY <3>2, <3>3
  <2>8. CASE res.status = "VerifyRecovery"
    <3>1. RecoveryOK' /\ ActiveOK' = ActiveOK
      BY <2>1, <2>6, <2>8 DEF RestoresRecovery
    <3>2. Bmc.active = "Success" => ActiveOK
      BY <1>1, <1>8, <2>1, <2>8 DEF XInv, ActiveClaim, Inside, RestoresRecovery
    <3>3. ActiveClaim' /\ RecoveryClaim'
      BY <1>3, <2>8, <3>1, <3>2 DEF ActiveClaim, RecoveryClaim
    <3> QED BY <1>6, <2>4, <3>3 DEF XInv
  <2>9. CASE res.status = "Success"
    <3>1. RecoveryClaim'
      BY <1>3, <2>1, <2>9 DEF RecoveryClaim
    <3>2. ActiveOK' = ActiveOK
      BY <2>1, <2>6, <2>9
    <3>3. evq' = post_smc_action(evq, "VERIFY", "Bmc", ctx.ev)
      BY <1>2, <2>9 DEF RecoverSucceeds
    <3>4. Longer(evq, evq')
      BY <1>2, <3>3, PostLonger
    <3>5. ActiveEvs \subseteq ActiveEvs'
      <4>1. ctx.ev \in ActiveEvs => ev'[ctx.ev].op = "VERIFY_ACTIVE"
        BY <1>2, <1>4, <1>5, <2>9 DEF XInv, Named, ActiveEvs
      <4> QED BY <1>2, <1>4, <4>1 DEF ActiveEvs
    <3>6. Leads(evq, ActiveEvs) => Leads(evq', ActiveEvs')
      <4>1. Leads(evq, ActiveEvs) => Leads(evq, ActiveEvs')
        BY <3>5 DEF Leads
      <4> QED BY <1>2, <3>4, <4>1, LongerFirst
    <3>7. ActiveClaim'
      BY <1>1, <1>3, <1>8, <2>1, <2>9, <3>2, <3>6 DEF XInv, ActiveClaim, Inside
    <3> QED BY <1>6, <2>4, <3>1, <3>7 DEF XInv
  <2> QED BY <1>1, <2>7, <2>8, <2>9 DEF IInv, TypeOK, Operation
<1> QED
  BY <1>7, <1>8

\* handlePostRecoveryFailure leaves the object done with, unless both regions
\* are marked Success, and then nothing was written.
LEMMA RecoverFailsX ==
  ASSUME IInv, QInv, XInv, RecoverFails PROVE XInv'
<1>1. /\ cur = "RECOVERY" /\ pc = "recover" /\ res.status = "Failure"
      /\ UNCHANGED <<evq, ev, ufm, left>> /\ left.fault = 0 /\ flash' = Written(flash, res)
      /\ Named' /\ pc' \in {"run", "parent"}
  BY DEF RecoverFails, IInv, Handling, XInv, NoFaults, Named
<1>2. ctx.ao = "Bmc" /\ "Bmc" \in AOs /\ ao["Bmc"] \in AoData
  BY <1>1, Contexts, Objects DEF IInv
<1>3. InUse
  BY <1>1 DEF QInv, Recovering
<1> DEFINE locked == [ao["Bmc"] EXCEPT !.lockdown = 1, !.pnc = 0]
           freed == [ao["Bmc"] EXCEPT !.pnc = 0]
<1>4. locked \in AoData /\ freed \in AoData /\ locked.pnc = 0 /\ freed.pnc = 0
  BY <1>2 DEF AoData
<1>5. CASE \E x \in {locked, freed} : ao' = [ao EXCEPT !["Bmc"] = x]
  <2>1. PICK x \in {locked, freed} : ao' = [ao EXCEPT !["Bmc"] = x]
    BY <1>5
  <2>2. x \in AoData /\ x.pnc = 0
    BY <1>4, <2>1
  <2>3. ~InUse'
    BY <1>2, <2>1, <2>2, AoStore DEF IInv, InUse
  <2> QED BY <1>1, <2>3, NotInUseX
<1>6. CASE Bmc.active = "Success" /\ Bmc.recovery = "Success" /\ ao' = ao /\ cur' = cur
           /\ ctx' = ctx /\ pc' = "parent"
  <2>1. res.writes = {}
    BY <1>1, <1>3, <1>6 DEF XInv, Restoring
  <2>2. ActiveOK' = ActiveOK
    BY <1>1, <2>1, TouchesWrites DEF ActiveOK, Regions
  <2>3. ActiveEvs' = ActiveEvs /\ Bmc' = Bmc /\ InUse' = InUse
    BY <1>1, <1>6 DEF ActiveEvs, Bmc, InUse
  <2>4. ActiveClaim' /\ RecoveryClaim'
    BY <1>1, <1>6, <2>2, <2>3 DEF XInv, ActiveClaim, RecoveryClaim, Inside
  <2>5. NoFaults' /\ Fresh' /\ Authenticating' /\ OfBmc' /\ Restoring'
    BY <1>1, <1>6, <2>3 DEF XInv, NoFaults, Fresh, Authenticating, OfBmc, Restoring, Inside
  <2> QED BY <1>1, <2>4, <2>5 DEF XInv
<1> HIDE DEF locked, freed
<1> QED
  <2>1. \/ \E x \in {locked, freed} : ao' = [ao EXCEPT !["Bmc"] = x]
        \/ /\ Bmc.active = "Success" /\ Bmc.recovery = "Success" /\ ao' = ao /\ cur' = cur
           /\ ctx' = ctx /\ pc' = "parent"
    BY <1>2 DEF RecoverFails, locked, freed, Bmc
  <2> QED BY <1>5, <1>6, <2>1

\* While an update works the object makes no claim.
LEMMA UpdatingX ==
  ASSUME XInv, cur' = "UPDATE", pc' \in {"update", "publish"}, left'.fault = 0,
         Bmc' = Bmc, ao'["I2c"].pnc = ao["I2c"].pnc, UNCHANGED ev
  PROVE  XInv'
<1>1. InUse' = InUse
  BY DEF InUse, Bmc
<1> QED
  BY <1>1 DEF XInv, NoFaults, Fresh, ActiveClaim, RecoveryClaim, Authenticating, OfBmc, Restoring,
              Named, Inside

\* handle_update_image_action.
LEMMA UpdateBeginX ==
  ASSUME IInv, QInv, XInv, UpdateBegin PROVE XInv'
<1>1. cur' = "UPDATE" /\ pc' = "update" /\ UNCHANGED <<ao, ev>> /\ left.fault = 0
  BY DEF UpdateBegin, XInv, NoFaults
<1>2. left'.fault = 0
  <2>1. CASE UNCHANGED left
    BY <1>1, <2>1
  <2>2. CASE \E o : Spend({x \in {o} : x.fault})
    <3>1. PICK o : Spend({x \in {o} : x.fault})
      BY <2>2
    <3>2. IsFiniteSet({x \in {o} : x.fault})
      BY FS_Singleton, FS_Subset
    <3> QED BY <1>1, <3>1, <3>2, SpendNone DEF IInv
  <2> QED BY <2>1, <2>2 DEF UpdateBegin
<1> QED
  BY <1>1, <1>2, UpdatingX DEF Bmc

\* The end of an update.
LEMMA UpdateEndX ==
  ASSUME IInv, QInv, XInv, UpdateEnd PROVE XInv'
<1>1. cur = "UPDATE" /\ cur' = "UPDATE" /\ pc' = "publish" /\ UNCHANGED <<ev, left>> /\ left.fault = 0
  BY DEF UpdateEnd, IInv, Handling, XInv, NoFaults
<1>2. ctx.ao = "Update" /\ "Update" \in AOs /\ ao["Update"] \in AoData
  BY <1>1, Contexts, Objects DEF IInv
<1>3. Bmc' = Bmc /\ ao'["I2c"] = ao["I2c"]
  <2> DEFINE d == [ao["Update"] EXCEPT !.pnc = 0]
  <2>1. d \in AoData
    BY <1>2 DEF AoData
  <2>2. ao' = [ao EXCEPT !["Update"] = d]
    BY <1>2 DEF UpdateEnd
  <2> HIDE DEF d
  <2> QED BY <1>2, <2>1, <2>2, AoStore DEF IInv, AOs, Bmc
<1> QED
  BY <1>1, <1>3, UpdatingX

\* PublishInitialEvents marks both regions of a provisioned platform as failed.
LEMMA PublishX ==
  ASSUME IInv, XInv, NEW q, PublishInitialEvents(q)
  PROVE  /\ left'.fault = 0 /\ Named'
         /\ prov => Bmc'.active # "Success" /\ Bmc'.recovery # "Success" /\ Bmc'.type = "BMC"
         /\ ~prov => ao' = ao
<1>1. left.fault = 0 /\ ev \in [Evs -> EventContext]
  BY DEF XInv, NoFaults, IInv, TypeOK
<1>2. CASE prov /\ check_staging_area /\ PublishBmcEvents(q)
  <2>1. left'.fault = 0
    <3>1. PICK b, p : Spend({o \in {b, p} : o.fault})
      BY <1>2 DEF check_staging_area
    <3>2. IsFiniteSet({b} \cup {p})
      BY FS_Singleton, FS_Union
    <3>3. IsFiniteSet({o \in {b, p} : o.fault})
      BY <3>2, FS_Subset
    <3> QED BY <1>1, <3>1, <3>3, SpendNone DEF IInv
  <2>2. Bmc'.active = "Failure" /\ Bmc'.recovery = "Failure" /\ Bmc'.type = "BMC"
    <3> DEFINE d == [type |-> "BMC", active |-> "Failure", recovery |-> "Failure",
                     prev |-> "Initial", pnc |-> 1, lockdown |-> ao["Bmc"].lockdown]
    <3>1. "Bmc" \in AOs /\ ao["Bmc"] \in AoData
      BY Objects DEF IInv
    <3>2. d \in AoData /\ d.active = "Failure" /\ d.recovery = "Failure" /\ d.type = "BMC"
      BY <3>1 DEF AoData, Status
    <3>3. ao' = [ao EXCEPT !["Bmc"] = d]
      BY <1>2 DEF PublishBmcEvents
    <3> HIDE DEF d
    <3> QED BY <3>1, <3>2, <3>3, AoStore DEF IInv, Bmc
  <2>3. ev'["Bmc0"].op = "VERIFY_BACKUP" /\ ev'["Bmc1"].flash = "PRIMARY"
    BY <1>1, <1>2 DEF PublishBmcEvents, Evs
  <2>4. Named'
    BY <2>3 DEF Named
  <2> QED BY <1>2, <2>1, <2>2, <2>4
<1>3. CASE ~prov /\ UNCHANGED <<ao, ev, left>>
  BY <1>1, <1>3 DEF XInv, Named
<1> QED
  BY <1>2, <1>3 DEF PublishInitialEvents

\* Publishing the initial events again.
LEMMA UpdatePublishX ==
  ASSUME IInv, QInv, XInv, UpdatePublish PROVE XInv'
<1>1. cur = "UPDATE" /\ pc' = "parent" /\ PublishInitialEvents(evq)
  BY DEF UpdatePublish, IInv, Handling
<1>2. CASE prov
  BY <1>1, <1>2, PublishX, FailedX
<1>3. CASE ~prov
  <2>1. ~InUse
    BY <1>1, <1>3 DEF QInv, Unprovisioned
  <2>2. ~InUse' /\ left'.fault = 0 /\ Named'
    BY <1>1, <1>3, <2>1, PublishX DEF InUse
  <2> QED BY <1>1, <2>2, NotInUseX
<1> QED
  BY <1>2, <1>3

\* The INITIALIZE event.
LEMMA IdleInitializeX ==
  ASSUME IInv, QInv, XInv, IdleInitialize PROVE XInv'
<1>1. Booting
  <2>1. ASSUME Running PROVE FALSE
    <3>1. evq \in Seq(Matched) /\ evq # <<>>
      BY <2>1 DEF Running, IdleInitialize
    <3>2. Head(evq) \in Matched
      BY <3>1
    <3>3. Head(evq).state = "INITIALIZE"
      BY DEF IdleInitialize
    <3> QED BY <3>2, <3>3 DEF Matched
  <2> QED BY <2>1 DEF IInv
<1>2. cur' = "IDLE" /\ pc' = "run" /\ ~InUse /\ PublishInitialEvents(Tail(evq))
  BY <1>1 DEF Booting, IdleInitialize, InUse
<1>3. CASE prov
  BY <1>2, <1>3, PublishX, FailedX
<1>4. CASE ~prov
  <2>1. ~InUse' /\ left'.fault = 0 /\ Named'
    BY <1>2, <1>4, PublishX DEF InUse
  <2> QED BY <1>2, <2>1, NotInUseX
<1> QED
  BY <1>3, <1>4

\* run_idle with nothing to dispatch: an active region still waiting to be
\* verified would have an event in the queue.
LEMMA IdleEmptyX ==
  ASSUME IInv, QInv, XInv, IdleEmpty PROVE XInv'
<1>1. /\ evq = <<>> /\ pc' = "run" /\ UNCHANGED <<cur, ctx, evq, ao, ev, ufm, flash, left>>
      /\ ~Inside("UPDATE") /\ ~Inside("VERIFY")
  BY DEF IdleEmpty, AtIdle, Inside
<1>2. ao["I2c"].pnc # 1
  BY <1>1 DEF QInv, Commanded, IdleEmpty, AtIdle
<1>3. Len(evq) = 0 /\ 1..0 = {}
  BY <1>1, ShortQueue
<1>4. InUse /\ Bmc.active = "Success" => ActiveOK
  BY <1>1, <1>3 DEF XInv, ActiveClaim, Leads
<1>5. AfterRecovery(evq', ActiveEvs') /\ Follows(evq', ActiveEvs')
  BY <1>1, <1>3 DEF AfterRecovery, Follows
<1>6. Bmc' = Bmc /\ InUse' = InUse /\ ActiveOK' = ActiveOK
  BY <1>1 DEF Bmc, InUse, ActiveOK
<1>7. ActiveClaim' /\ RecoveryClaim'
  BY <1>4, <1>5, <1>6 DEF ActiveClaim, RecoveryClaim
<1>8. NoFaults' /\ Fresh' /\ Authenticating' /\ OfBmc' /\ Restoring' /\ Named'
  BY <1>1, <1>2, <1>6 DEF XInv, NoFaults, Fresh, Authenticating, OfBmc, Restoring, Named
<1> QED
  BY <1>7, <1>8 DEF XInv

\* run_idle dispatches the first event: the first verification stays the first
\* one, or is the one that runs.
LEMMA IdleDispatchX ==
  ASSUME IInv, QInv, XInv, IdleDispatch PROVE XInv'
<1> DEFINE h == Head(evq).state
           r == Tail(evq)
<1>1. /\ evq \in Seq(SmcEvent) /\ evq # <<>> /\ h # "INITIALIZE"
      /\ pc' = "run" /\ cur' = h /\ ctx'.ev = Head(evq).ev /\ evq' = r
      /\ UNCHANGED <<ao, ev, ufm, flash, left>>
      /\ ~Inside("UPDATE") /\ ~Inside("VERIFY")
  BY Contexts DEF IdleDispatch, AtIdle, Inside
<1>2. QInv'
  BY IdleDispatchQ
<1>3. /\ h = "VERIFY" /\ Leads(evq, ActiveEvs) => Head(evq).ev \in ActiveEvs
      /\ h # "VERIFY" /\ Leads(evq, ActiveEvs) => Leads(r, ActiveEvs)
      /\ h # "VERIFY" /\ AfterRecovery(evq, ActiveEvs) => AfterRecovery(r, ActiveEvs)
      /\ h = "RECOVERY" /\ AfterRecovery(evq, ActiveEvs) => Follows(r, ActiveEvs)
  BY <1>1, TailFirst
<1>4. ao["I2c"].pnc = 1 => h = "I2C"
  BY <1>1 DEF QInv, Commanded, IdleDispatch, AtIdle
<1> HIDE DEF h, r
<1>5. /\ Bmc' = Bmc /\ InUse' = InUse /\ ActiveOK' = ActiveOK /\ RecoveryOK' = RecoveryOK
      /\ ActiveEvs' = ActiveEvs
  BY <1>1 DEF Bmc, InUse, ActiveOK, RecoveryOK, ActiveEvs
<1>6. h = "VERIFY" => AfterRecovery(r, ActiveEvs)
  <2>1. h = "VERIFY" => ~Before(r, "RECOVERY", "VERIFY")
    BY <1>1, <1>2 DEF QInv, Blocks, Inside
  <2> QED BY <2>1, NoneAfter
<1>7. ActiveClaim'
  BY <1>1, <1>3, <1>5 DEF XInv, ActiveClaim, Inside
<1>8. RecoveryClaim'
  BY <1>1, <1>3, <1>5, <1>6 DEF XInv, RecoveryClaim, Inside
<1>9. NoFaults' /\ Fresh' /\ Authenticating' /\ OfBmc' /\ Restoring' /\ Named'
  BY <1>1, <1>4, <1>5 DEF XInv, NoFaults, Fresh, Authenticating, OfBmc, Restoring, Named, Inside
<1> QED
  BY <1>7, <1>8, <1>9 DEF XInv

\* process_i2c_command: a command finds both regions marked as failed, so a
\* provisioning it erases contradicts no claim.
LEMMA RunI2cX ==
  ASSUME IInv, QInv, XInv, RunI2c PROVE XInv'
<1>1. /\ cur = "I2C" /\ pc = "run" /\ pc' = "parent" /\ UNCHANGED <<cur, ctx, flash, left>>
      /\ ctx.ao = "I2c" /\ ao["I2c"].pnc \in {0, 1} /\ left.fault = 0
  BY Contexts DEF RunI2c, XInv, NoFaults
<1>2. CASE ao["I2c"].pnc = 0
  <2>1. UNCHANGED <<ao, ev, evq, ufm>>
    BY <1>1, <1>2 DEF RunI2c
  <2>2. /\ Bmc' = Bmc /\ InUse' = InUse /\ ActiveOK' = ActiveOK /\ RecoveryOK' = RecoveryOK
        /\ ActiveEvs' = ActiveEvs
    BY <1>1, <2>1 DEF Bmc, InUse, ActiveOK, RecoveryOK, ActiveEvs
  <2> QED
    BY <1>1, <2>1, <2>2 DEF XInv, NoFaults, Fresh, ActiveClaim, RecoveryClaim, Authenticating, OfBmc,
       Restoring, Named, Inside
<1>3. CASE ao["I2c"].pnc = 1
  <2>1. Bmc' = Bmc
    <3>1. CASE ao' = [ao EXCEPT !["I2c"].pnc = 0]
      <4>1. ao \in [AOs -> AoData] /\ "Bmc" \in AOs
        BY Objects DEF IInv, TypeOK
      <4> QED BY <3>1, <4>1 DEF Bmc, AOs
    <3>2. CASE UpdateIntentHandle(cmd.bits, cmd.source)
      BY <3>2, IntentOrder DEF Bmc
    <3> QED BY <1>1, <1>3, <3>1, <3>2 DEF RunI2c
  <2>2. ev'["Bmc0"] = ev["Bmc0"] /\ ev'["Bmc1"] = ev["Bmc1"]
    <3>1. ev' = ev \/ \E x : ev' = [ev EXCEPT !["Update"] = x]
      BY <1>1, <1>3 DEF RunI2c, UpdateIntentHandle
    <3>2. ev \in [Evs -> EventContext] /\ "Bmc0" \in Evs /\ "Bmc1" \in Evs
      BY DEF IInv, TypeOK, Evs
    <3> QED BY <3>1, <3>2
  <2>3. Named'
    BY <2>2 DEF XInv, Named
  <2>4. CASE InUse
    <3>1. Bmc.active # "Success" /\ Bmc.recovery # "Success" /\ Bmc.type = "BMC"
      BY <1>3, <2>4 DEF XInv, Fresh, OfBmc
    <3> QED BY <1>1, <2>1, <2>3, <3>1, FailedX
  <2>5. CASE ~InUse
    <3>1. ~InUse'
      BY <2>1, <2>5 DEF InUse, Bmc
    <3> QED BY <1>1, <2>3, <3>1, NotInUseX
  <2> QED BY <2>4, <2>5
<1> QED
  BY <1>1, <1>2, <1>3

\* run_lockdown.
LEMMA RunLockdownX ==
  ASSUME IInv, QInv, XInv, RunLockdown PROVE XInv'
<1>1. UNCHANGED <<cur, ctx, pc, res, evq, ev, ufm, flash, left>>
  BY DEF RunLockdown
<1>2. \A a \in AOs : /\ ao'[a].pnc = ao[a].pnc /\ ao'[a].type = ao[a].type
                     /\ ao'[a].active = ao[a].active /\ ao'[a].recovery = ao[a].recovery
  <2>1. ao \in [AOs -> AoData] /\ ao' = [ao EXCEPT ![ctx.ao] = [@ EXCEPT !.lockdown = 1]]
    BY DEF RunLockdown, IInv, TypeOK
  <2>2. ASSUME NEW d \in AoData, NEW x, x = [d EXCEPT !.lockdown = 1]
        PROVE  x.pnc = d.pnc /\ x.type = d.type /\ x.active = d.active /\ x.recovery = d.recovery
    BY <2>2 DEF AoData
  <2> QED BY <2>1, <2>2
<1>3. "Bmc" \in AOs /\ "I2c" \in AOs
  BY DEF AOs
<1>4. Bmc'.active = Bmc.active /\ Bmc'.recovery = Bmc.recovery /\ Bmc'.type = Bmc.type
      /\ InUse' = InUse /\ ao'["I2c"].pnc = ao["I2c"].pnc
  BY <1>2, <1>3 DEF Bmc, InUse
<1> QED
  BY <1>1, <1>4, QuietX

\* A mailbox write comes from a BMC whose object is not in use.
LEMMA I2cWriteX ==
  ASSUME IInv, QInv, XInv, NEW c \in Commands, I2cWrite(c) PROVE XInv'
<1>1. bmc = "released" /\ UNCHANGED pc /\ left'.fault = 0
  BY DEF I2cWrite, XInv, NoFaults, IInv, TypeOK
<1>2. ~InUse /\ pc # "auth"
  BY <1>1 DEF QInv, HeldInUse, XInv, Authenticating
<1>3. ~InUse'
  <2>1. ao \in [AOs -> AoData] /\ "Bmc" \in AOs /\ \E x : ao' = [ao EXCEPT !["I2c"] = x]
    BY Objects DEF I2cWrite, IInv, TypeOK
  <2> QED BY <1>2, <2>1 DEF InUse, AOs
<1>4. Named'
  <2>1. /\ ev \in [Evs -> EventContext] /\ "Bmc0" \in Evs /\ "Bmc1" \in Evs
        /\ \E x : ev' = [ev EXCEPT !["I2c"] = x]
    BY DEF I2cWrite, IInv, TypeOK, Evs
  <2>2. ev'["Bmc0"] = ev["Bmc0"] /\ ev'["Bmc1"] = ev["Bmc1"]
    BY <2>1
  <2> QED BY <2>2 DEF XInv, Named
<1> QED
  BY <1>1, <1>2, <1>3, <1>4, NotInUseX

\* A BMC that damages its flash is released, so its object is not in use.
LEMMA CorruptX ==
  ASSUME IInv, QInv, XInv, NEW i \in Images, NEW r \in Regions, Corrupt(i, r) PROVE XInv'
<1>1. UNCHANGED <<cur, ctx, pc, res, evq, ao, ev, ufm>> /\ left'.fault = left.fault
  BY DEF Corrupt, IInv, TypeOK
<1>2. CASE i = "BMC"
  <2>1. ~InUse /\ pc # "auth"
    BY <1>2 DEF Corrupt, QInv, HeldInUse, XInv, Authenticating
  <2>2. ~InUse' /\ pc' # "auth" /\ left'.fault = 0 /\ Named'
    BY <1>1, <2>1 DEF InUse, XInv, NoFaults, Named
  <2> QED BY <2>2, NotInUseX
<1>3. CASE i # "BMC"
  <2>1. flash'["BMC"] = flash["BMC"]
    BY <1>3 DEF Corrupt, IInv, TypeOK, Flash, Images
  <2>2. Bmc' = Bmc /\ InUse' = InUse
    BY <1>1 DEF Bmc, InUse
  <2> QED BY <1>1, <2>1, <2>2, QuietX
<1> QED
  BY <1>2, <1>3

\* A restart.
LEMMA RebootX ==
  ASSUME Reboot, left'.fault = 0 PROVE XInv'
<1>1. ~InUse' /\ pc' # "auth"
  BY DEF Reboot, InUse, BlankAO, AOs
<1>2. Named'
  BY DEF Reboot, Named, BlankEv, Evs
<1> QED
  BY <1>1, <1>2, NotInUseX

\* The start.
LEMMA InitX ==
  ASSUME MaxFault = 0, Init PROVE XInv
<1>1. ~InUse /\ pc # "auth" /\ left.fault = 0
  BY DEF Init, Boot, InUse, BlankAO, AOs
<1>2. Named
  BY DEF Init, Boot, Named, BlankEv, Evs
<1> QED
  BY <1>1, <1>2 DEF XInv, NoFaults, Fresh, ActiveClaim, RecoveryClaim, Authenticating, OfBmc, Restoring

-----------------------------------------------------------------------------
(* The theorem                                                             *)

\* One step of Next preserves XInv.
LEMMA NextX ==
  ASSUME IInv, QInv, XInv, [Next]_vars PROVE XInv'
<1>1. CASE UNCHANGED vars
  <2>1. Bmc' = Bmc /\ InUse' = InUse
    BY <1>1 DEF Bmc, InUse, vars
  <2> QED BY <1>1, <2>1, QuietX DEF vars
<1>2. CASE MainThread
  <2>1. ASSUME UpdateReboot PROVE XInv'
    BY <2>1, RebootX DEF UpdateReboot, XInv, NoFaults
  <2> QED
    BY <1>2, <2>1, IdleEmptyX, IdleInitializeX, IdleDispatchX, VerifyBeginX, VerifySucceedsX,
       VerifyFailsX, RecoverBeginX, RecoverSucceedsX, RecoverFailsX, UpdateBeginX, UpdateEndX,
       UpdatePublishX, RunI2cX, RunLockdownX DEF MainThread
<1>3. CASE Interrupt
  <2>1. left.bmcReset = 0 /\ left.timeout = 0
    BY DEF QInv, NoInterrupts
  <2>2. PICK c \in Commands : I2cWrite(c)
    BY <1>3, <2>1 DEF Interrupt, BmcReset, WdtTimeout
  <2> QED BY <2>2, I2cWriteX
<1>4. CASE Environment
  <2>1. ASSUME Reset PROVE XInv'
    <3>1. left'.fault = 0
      BY <2>1 DEF Reset, IInv, TypeOK, XInv, NoFaults
    <3> QED BY <2>1, <3>1, RebootX DEF Reset
  <2> QED BY <1>4, <2>1, CorruptX DEF Environment
<1> QED
  BY <1>1, <1>2, <1>3, <1>4 DEF Next

\* The step that releases a provisioned BMC finds its active region intact:
\* handlePostVerifySuccess after a verification of the recovery region, and
\* handlePostRecoveryFailure, rely on the claim that the object makes.
LEMMA ReleaseStep ==
  ASSUME IInv, QInv, XInv, Next, bmc = "held", bmc' = "released", prov
  PROVE  ActiveOK
<1>1. CASE VerifySucceeds
  <2>1. cur = "VERIFY" /\ pc = "auth" /\ res.status = "Success"
    BY <1>1 DEF VerifySucceeds, IInv, Handling
  <2>2. ctx.ao = "Bmc" /\ ctx.ev \in Evs /\ ao["Bmc"] \in AoData
    BY <2>1, Contexts, Objects DEF IInv, Evs
  <2>3. InUse /\ (ctx.ev \in ActiveEvs => ActiveOK)
    BY <2>1 DEF XInv, Authenticating
  <2> DEFINE d == Verified(ao["Bmc"], ctx.ev, "Success")
  <2>4. ctx.ev \notin ActiveEvs => d.active = ao["Bmc"].active
    BY <2>2, VerifiedFields DEF Status
  <2>5. d.active = "Success"
    BY <1>1, <2>2 DEF VerifySucceeds, linesVars
  <2>6. ASSUME ctx.ev \notin ActiveEvs PROVE ActiveOK
    BY <2>1, <2>3, <2>4, <2>5, <2>6 DEF XInv, ActiveClaim, Inside, Bmc
  <2> QED BY <2>3, <2>6
<1>2. CASE RecoverFails
  <2>1. cur = "RECOVERY" /\ pc = "recover" /\ res.status = "Failure"
    BY <1>2 DEF RecoverFails, IInv, Handling
  <2>2. ctx.ao = "Bmc"
    BY <2>1, Contexts
  <2>3. InUse
    BY <2>1 DEF QInv, Recovering
  <2>4. Bmc.type = "BMC"
    BY <2>3 DEF XInv, OfBmc
  <2>5. Bmc.active = "Success" /\ Bmc.recovery # "Success"
    BY <1>2, <2>2, <2>4 DEF RecoverFails, linesVars, Bmc
  <2> QED BY <2>1, <2>3, <2>5 DEF XInv, ActiveClaim, Inside
<1>3. ASSUME NEW q, PublishInitialEvents(q) PROVE FALSE
  <2>1. check_staging_area
    BY <1>3 DEF PublishInitialEvents
  <2> QED BY <2>1 DEF check_staging_area, BootHold
<1>4. CASE MainThread
  <2>1. ~IdleInitialize /\ ~UpdatePublish
    BY <1>3 DEF IdleInitialize, UpdatePublish
  <2>2. ~UpdateReboot
    BY DEF UpdateReboot, Reboot
  <2>3. ~VerifyBegin /\ ~RecoverBegin /\ ~UpdateBegin
    BY DEF VerifyBegin, RecoverBegin, UpdateBegin, BootHold
  <2>4. ~IdleEmpty /\ ~IdleDispatch /\ ~VerifyFails /\ ~RecoverSucceeds /\ ~UpdateEnd
        /\ ~RunI2c /\ ~RunLockdown
    BY DEF IdleEmpty, IdleDispatch, VerifyFails, RecoverSucceeds, UpdateEnd, RunI2c, RunLockdown
  <2> QED BY <1>1, <1>2, <1>4, <2>1, <2>2, <2>3, <2>4 DEF MainThread
<1>5. ~Interrupt
  BY DEF Interrupt, BmcReset, WdtTimeout, I2cWrite
<1>6. ~Environment
  BY DEF Environment, Reset, Reboot, Corrupt
<1> QED
  BY <1>4, <1>5, <1>6 DEF Next

\* A provisioned BMC is released only with an active region that authenticates,
\* for any number of commands, corruptions and resets: CheckAndReleasePlatform
\* decides on the fields of AO_DATA, and they are right whenever it does.
THEOREM ReleasesAreIntact ==
  ASSUME MaxBmcReset = 0, MaxTimeout = 0, MaxFault = 0
  PROVE  Spec /\ CommandsInTurn => ReleasesIntactBmc
<1> DEFINE A == bmc = "held" /\ bmc' = "released" /\ prov => ufm /\ flash["BMC"]["active"] = "good"
<1>1. Init => XInv
  BY InitX
<1>2. IInv /\ QInv /\ XInv /\ [Next]_vars => XInv'
  BY NextX
<1>3. IInv /\ QInv /\ XInv /\ [Next]_vars => [A]_vars
  BY ReleaseStep DEF ActiveOK
<1> QED
  BY <1>1, <1>2, <1>3, Invariance, QInvariance, PTL DEF Spec, ReleasesIntactBmc

-----------------------------------------------------------------------------
(* The platform                                                            *)

\* What the operation in progress does to the BMC's active region: an update of
\* the HRoT leaves it alone, and a recovery that fails has lost what it erased.
Writing ==
  /\ ao["Update"].type = "HROT" /\ ao["Update"].pnc = 1 => ev["Update"].image = "HROT"
  /\ pc = "update" /\ ao["Update"].type = "HROT" => <<"BMC", "active">> \notin res.writes
  /\ pc = "recover" /\ <<"BMC", "active">> \in res.writes /\ res.status = "Failure" =>
       flash["BMC"]["active"] = "bad" /\ res.after["BMC"]["active"] = "bad"

\* A recovery of the BMC's active region that fails leaves it bad.
LEMMA RecoverRuins ==
  ASSUME TypeOK, NEW d, NEW o \in recover_image(d, "BMC")
  PROVE  <<"BMC", "active">> \in o.writes /\ o.status = "Failure" => o.after["BMC"]["active"] = "bad"
<1>1. flash \in Flash /\ "active" \in Regions /\ "recovery" \in Regions
  BY DEF TypeOK, Regions
<1>2. Untouched("Failure", flash).writes = {} /\ Untouched("Success", flash).writes = {}
  BY <1>1, UntouchedType
<1>3. CASE d.recovery # "Success"
  <2>1. RecoverySources(d, "BMC") \subseteq {flash}
    BY DEF RecoverySources
  <2>2. \/ o = Untouched("Failure", flash)
        \/ \E b : o = Outcome("VerifyRecovery", flash, Put(flash, "BMC", "recovery", "good"),
                              {<<"BMC", "recovery">>}, b)
        \/ \E b : o = Outcome("Failure", flash, Put(flash, "BMC", "recovery", "bad"),
                              {<<"BMC", "recovery">>}, b)
    BY <1>3, <2>1 DEF recover_image
  <2>3. ASSUME NEW b, o = Outcome("VerifyRecovery", flash, Put(flash, "BMC", "recovery", "good"),
                                  {<<"BMC", "recovery">>}, b)
        PROVE  <<"BMC", "recovery">> \in o.writes /\ <<"BMC", "active">> \notin o.writes
    BY <1>1, <2>3, PutWrites
  <2>4. ASSUME NEW b, o = Outcome("Failure", flash, Put(flash, "BMC", "recovery", "bad"),
                                  {<<"BMC", "recovery">>}, b)
        PROVE  <<"BMC", "recovery">> \in o.writes /\ <<"BMC", "active">> \notin o.writes
    BY <1>1, <2>4, PutWrites
  <2> QED BY <1>2, <2>2, <2>3, <2>4
<1>4. CASE d.recovery = "Success" /\ d.active = "Success"
  BY <1>2, <1>4 DEF recover_image
<1>5. CASE d.recovery = "Success" /\ d.active # "Success"
  <2>1. \/ o = Untouched("Failure", flash)
        \/ o = Outcome("VerifyActive", flash, Put(flash, "BMC", "active", "good"),
                       {<<"BMC", "active">>}, FALSE)
        \/ \E st, b : o = Outcome(st, flash, Put(flash, "BMC", "active", "bad"),
                                  {<<"BMC", "active">>}, b)
    BY <1>5 DEF recover_image
  <2>2. ASSUME o = Outcome("VerifyActive", flash, Put(flash, "BMC", "active", "good"),
                           {<<"BMC", "active">>}, FALSE)
        PROVE  o.status = "VerifyActive"
    BY <2>2 DEF Outcome
  <2>3. CASE \E st, b : o = Outcome(st, flash, Put(flash, "BMC", "active", "bad"),
                                    {<<"BMC", "active">>}, b)
    <3>1. PICK st, b : o = Outcome(st, flash, Put(flash, "BMC", "active", "bad"),
                                   {<<"BMC", "active">>}, b)
      BY <2>3
    <3> QED BY <1>1, <3>1, PutWrites
  <2> QED BY <1>2, <2>1, <2>2, <2>3
<1> QED
  BY <1>3, <1>4, <1>5

\* What hrot_update begins rewrites nothing.
LEMMA HrotWrites ==
  ASSUME NEW f \in Flash, NEW o \in hrot_update(f) PROVE o.writes = {}
<1>1. \A st \in Status : Untouched(st, f).writes = {}
  BY UntouchedType DEF Status
<1>2. [Untouched("Success", f) EXCEPT !.clears = Flags, !.decommissions = TRUE].writes = {}
  BY <1>1 DEF Untouched, Outcome, Status
<1> QED
  BY <1>1, <1>2 DEF hrot_update

\* A step that leaves the update object alone and ends outside the two flash
\* operations preserves Writing, and so does one that changes none of them.
LEMMA QuietW ==
  ASSUME Writing, ev'["Update"] = ev["Update"],
         ao'["Update"].type = ao["Update"].type, ao'["Update"].pnc = ao["Update"].pnc,
         \/ pc' \notin {"update", "recover"}
         \/ /\ UNCHANGED <<pc, res>>
            /\ flash["BMC"]["active"] = "bad" => flash'["BMC"]["active"] = "bad"
  PROVE  Writing'
  BY DEF Writing

\* Each step of Next preserves it.
LEMMA NextW ==
  ASSUME IInv, QInv, Writing, [Next]_vars PROVE Writing'
<1>1. CASE UNCHANGED vars
  BY <1>1, QuietW DEF vars
<1>2. ASSUME Reboot PROVE Writing'
  BY <1>2 DEF Reboot, BlankAO, AOs, Writing
<1>3. CASE RecoverBegin
  <2>1. cur = "RECOVERY" /\ pc' = "recover" /\ UNCHANGED <<ao, ev>>
    BY <1>3 DEF RecoverBegin
  <2>2. ctx.ao = "Bmc" /\ ctx.ev \in {"Bmc0", "Bmc1"} /\ ao["Bmc"].pnc \in {0, 1}
    BY <2>1, Contexts
  <2>3. CASE res' = Untouched("Success", flash)
    <3>1. res'.writes = {}
      BY <2>3, UntouchedType DEF IInv, TypeOK
    <3> QED BY <2>1, <3>1 DEF Writing
  <2>4. CASE InUse /\ \E o \in recover_image(ao["Bmc"], "BMC") : res' = o /\ flash' = Erased(flash, o)
    <3>1. PICK o \in recover_image(ao["Bmc"], "BMC") : res' = o /\ flash' = Erased(flash, o)
      BY <2>4
    <3>2. <<"BMC", "active">> \in o.writes => flash'["BMC"]["active"] = "bad"
      BY <3>1 DEF Erased, Images, Regions
    <3>3. <<"BMC", "active">> \in o.writes /\ o.status = "Failure" => o.after["BMC"]["active"] = "bad"
      BY RecoverRuins DEF IInv
    <3> QED BY <2>1, <3>1, <3>2, <3>3 DEF Writing
  <2>5. ASSUME InUse PROVE ev[ctx.ev].image = "BMC"
    BY <2>2, <2>5, ImageNamed
  <2> QED BY <1>3, <2>2, <2>3, <2>4, <2>5 DEF RecoverBegin, InUse
<1>4. CASE UpdateBegin
  <2>1. cur = "UPDATE" /\ pc' = "update" /\ UNCHANGED <<ao, ev>>
    BY <1>4 DEF UpdateBegin
  <2>2. ctx.ao = "Update" /\ ctx.ev = "Update" /\ ao["Update"].pnc \in {0, 1}
    BY <2>1, Contexts
  <2>3. ASSUME ao["Update"].type = "HROT" PROVE res'.writes = {}
    <3>1. CASE ao["Update"].pnc = 0
      <4>1. res' = Untouched("Success", flash)
        BY <1>4, <2>2, <3>1 DEF UpdateBegin
      <4> QED BY <4>1, UntouchedType DEF IInv, TypeOK
    <3>2. CASE ao["Update"].pnc = 1
      <4>1. ev["Update"].image = "HROT"
        BY <2>3, <3>2 DEF Writing
      <4>2. ao[ctx.ao].pnc # 0 /\ ev[ctx.ev].image = "HROT"
        BY <2>2, <3>2, <4>1
      <4>3. PICK o \in IF ev[ctx.ev].image = "HROT" THEN hrot_update(flash)
                       ELSE update_firmware_image(flash, cpld, ev[ctx.ev].image,
                                                  RegionOf(ev[ctx.ev].flash)) : res' = o
        BY <1>4, <4>2, Zenon DEF UpdateBegin
      <4>4. o \in hrot_update(flash)
        BY <4>2, <4>3
      <4> QED BY <4>3, <4>4, HrotWrites DEF IInv, TypeOK
    <3> QED BY <2>2, <3>1, <3>2
  <2> QED BY <2>1, <2>3 DEF Writing
<1>5. CASE UpdateEnd
  <2>1. cur = "UPDATE" /\ pc' = "publish" /\ UNCHANGED ev
    BY <1>5 DEF UpdateEnd, IInv, Handling
  <2>2. ctx.ao = "Update" /\ ao["Update"] \in AoData /\ ao \in [AOs -> AoData] /\ "Update" \in AOs
    BY <2>1, Contexts, Objects DEF IInv, TypeOK
  <2>3. ao'["Update"].pnc = 0
    BY <1>5, <2>2 DEF UpdateEnd, AoData
  <2> QED BY <2>1, <2>3 DEF Writing
<1>6. CASE RunI2c
  <2>1. pc' = "parent" /\ UNCHANGED <<res, flash>>
    BY <1>6 DEF RunI2c
  <2>2. CASE UNCHANGED ev /\ ao'["Update"] = ao["Update"]
    BY <2>1, <2>2, QuietW
  <2>3. CASE UpdateIntentHandle(cmd.bits, cmd.source)
    <3> DEFINE calls == UpdateEvents(cmd.bits)
               n == Len(calls)
    <3>1. /\ ao \in [AOs -> AoData] /\ ev \in [Evs -> EventContext]
          /\ "I2c" \in AOs /\ "Update" \in AOs /\ "Update" \in Evs /\ ao["Update"] \in AoData
      BY Objects DEF IInv, TypeOK, AOs, Evs
    <3>2. CASE n = 0
      <4>1. ev' = ev /\ ao'["Update"] = ao["Update"]
        BY <2>3, <3>1, <3>2 DEF UpdateIntentHandle
      <4> QED BY <2>1, <4>1, QuietW
    <3>3. CASE n # 0
      <4>1. ao'["Update"].type = calls[n].image /\ ev'["Update"].image = calls[n].image
        <5>1. ev' = [ev EXCEPT !["Update"] = [op |-> "UPDATE_BACKUP", image |-> calls[n].image,
                                              flash |-> calls[n].flash]]
          BY <2>3, <3>3 DEF UpdateIntentHandle
        <5>2. ao' = [ao EXCEPT !["I2c"].pnc = 0,
                               !["Update"] = [@ EXCEPT !.type = calls[n].image, !.pnc = 1]]
          BY <2>3, <3>3 DEF UpdateIntentHandle
        <5> HIDE DEF calls, n
        <5>3. ev'["Update"].image = calls[n].image
          BY <3>1, <5>1
        <5>4. ao'["Update"].type = calls[n].image
          BY <3>1, <5>2 DEF AoData
        <5> QED BY <5>3, <5>4
      <4> HIDE DEF calls, n
      <4> QED BY <2>1, <4>1 DEF Writing
    <3> QED BY <3>2, <3>3
  <2>4. \/ UNCHANGED ev /\ (ao' = ao \/ ao' = [ao EXCEPT !["I2c"].pnc = 0])
        \/ UpdateIntentHandle(cmd.bits, cmd.source)
    BY <1>6 DEF RunI2c
  <2>5. ASSUME ao' = [ao EXCEPT !["I2c"].pnc = 0] PROVE ao'["Update"] = ao["Update"]
    BY <2>5 DEF IInv, TypeOK, AOs
  <2> QED BY <2>2, <2>3, <2>4, <2>5
<1>7. ASSUME pc' \notin {"update", "recover"},
             \E x : ao' = [ao EXCEPT !["Bmc"] = x] \/ ao' = ao,
             ev' = ev \/ (\E e \in {"Bmc0", "Bmc1"} : \E x : ev' = [ev EXCEPT ![e] = x])
                      \/ (\E x, y : ev' = [ev EXCEPT !["Bmc0"] = x, !["Bmc1"] = y])
      PROVE  Writing'
  <2>1. /\ ao \in [AOs -> AoData] /\ ev \in [Evs -> EventContext]
        /\ "Bmc" \in AOs /\ "Update" \in AOs /\ {"Bmc0", "Bmc1", "Update"} \subseteq Evs
    BY Objects DEF IInv, TypeOK, AOs, Evs
  <2>2. ao'["Update"] = ao["Update"]
    BY <1>7, <2>1
  <2>3. ev'["Update"] = ev["Update"]
    BY <1>7, <2>1
  <2> QED BY <1>7, <2>2, <2>3, QuietW
<1>8. CASE IdleEmpty \/ IdleDispatch
  BY <1>8, QuietW DEF IdleEmpty, IdleDispatch
<1>9. ASSUME NEW q, PublishInitialEvents(q), pc' \in {"run", "parent"} PROVE Writing'
  <2>1. \E x : ao' = [ao EXCEPT !["Bmc"] = x] \/ ao' = ao
    BY <1>9 DEF PublishInitialEvents, PublishBmcEvents
  <2>2. ev' = ev \/ (\E x, y : ev' = [ev EXCEPT !["Bmc0"] = x, !["Bmc1"] = y])
    BY <1>9 DEF PublishInitialEvents, PublishBmcEvents
  <2> QED BY <1>7, <1>9, <2>1, <2>2
<1>10. CASE IdleInitialize \/ UpdatePublish
  BY <1>9, <1>10 DEF IdleInitialize, UpdatePublish
<1>11. CASE VerifyBegin
  <2>1. pc' \notin {"update", "recover"} /\ UNCHANGED <<ao, ev>>
    BY <1>11 DEF VerifyBegin
  <2> QED BY <2>1, QuietW
<1>12. CASE VerifySucceeds \/ VerifyFails \/ RecoverSucceeds \/ RecoverFails
  <2>1. cur \in {"VERIFY", "RECOVERY"} /\ pc' \notin {"update", "recover"}
    BY <1>12 DEF VerifySucceeds, VerifyFails, RecoverSucceeds, RecoverFails, IInv, Handling
  <2>2. ctx.ao = "Bmc" /\ ctx.ev \in {"Bmc0", "Bmc1"}
    BY <2>1, Contexts
  <2>3. \E x : ao' = [ao EXCEPT !["Bmc"] = x] \/ ao' = ao
    BY <1>12, <2>2 DEF VerifySucceeds, VerifyFails, RecoverSucceeds, RecoverFails
  <2>4. ev' = ev \/ (\E e \in {"Bmc0", "Bmc1"} : \E x : ev' = [ev EXCEPT ![e] = x])
    BY <1>12, <2>2 DEF VerifySucceeds, VerifyFails, RecoverSucceeds, RecoverFails
  <2> QED BY <1>7, <2>1, <2>3, <2>4
<1>13. CASE RunLockdown
  <2>1. pc' = "run" /\ UNCHANGED ev /\ ao' = [ao EXCEPT ![ctx.ao].lockdown = 1]
    BY <1>13 DEF RunLockdown
  <2>2. ctx.ao \in AOs /\ ao \in [AOs -> AoData] /\ "Update" \in AOs
    BY <1>13, Objects DEF RunLockdown, IInv, TypeOK, Handling, AOs
  <2>3. ao'["Update"].type = ao["Update"].type /\ ao'["Update"].pnc = ao["Update"].pnc
    BY <2>1, <2>2 DEF AoData
  <2> QED BY <2>1, <2>3, QuietW
<1>14. ASSUME NEW c \in Commands, I2cWrite(c) PROVE Writing'
  <2>1. /\ ao \in [AOs -> AoData] /\ ev \in [Evs -> EventContext]
        /\ "I2c" \in AOs /\ "Update" \in AOs /\ "Update" \in Evs
    BY DEF IInv, TypeOK, AOs, Evs
  <2>2. UNCHANGED <<pc, res, flash>> /\ ao'["Update"] = ao["Update"] /\ ev'["Update"] = ev["Update"]
    BY <1>14, <2>1 DEF I2cWrite
  <2> QED BY <2>2, QuietW
<1>15. ASSUME NEW i \in Images, NEW r \in Regions, Corrupt(i, r) PROVE Writing'
  <2>1. UNCHANGED <<pc, res, ao, ev>>
    BY <1>15 DEF Corrupt
  <2>2. flash["BMC"]["active"] = "bad" => flash'["BMC"]["active"] = "bad"
    BY <1>15 DEF Corrupt, IInv, TypeOK, Flash, Images, Regions
  <2> QED BY <2>1, <2>2, QuietW
<1>16. left.bmcReset = 0 /\ left.timeout = 0
  BY DEF QInv, NoInterrupts
<1>17. ~BmcReset /\ \A i \in Images : ~WdtTimeout(i)
  BY <1>16 DEF BmcReset, WdtTimeout
<1>18. CASE UpdateReboot \/ Reset
  BY <1>2, <1>18 DEF UpdateReboot, Reset
<1> QED
  BY <1>1, <1>3, <1>4, <1>5, <1>6, <1>8, <1>10, <1>11, <1>12, <1>13, <1>14, <1>15, <1>17, <1>18
     DEF Next, MainThread, Interrupt, Environment

\* A step that changes nothing Platform speaks of.
LEMMA QuietG ==
  ASSUME UNCHANGED <<bmc, prov>>, BmcImage' = BmcImage, left'.reset = left.reset,
         (cur = "LOCKDOWN") = (cur' = "LOCKDOWN")
  PROVE  UNCHANGED Guard!vars
  BY DEF Guard!vars

\* A step of a handler that leaves the line held, the image perhaps erased.
LEMMA HoldG ==
  ASSUME cur # "LOCKDOWN", cur' # "LOCKDOWN", prov' = prov, left'.reset = left.reset,
         bmc' = "held", ActiveOK' => ActiveOK
  PROVE  Guard!Hold
<1>1. BmcImage' \in {BmcImage, "bad"}
  BY DEF BmcImage, ActiveOK
<1> QED
  BY <1>1 DEF Guard!Hold

\* One that writes the image while the line is held.
LEMMA RewriteG ==
  ASSUME cur # "LOCKDOWN", cur' # "LOCKDOWN", prov' = prov, left'.reset = left.reset,
         bmc = "held", bmc' = "held"
  PROVE  Guard!Rewrite
  BY DEF Guard!Rewrite, BmcImage

\* One that releases the line, over an image that authenticates.
LEMMA ReleaseG ==
  ASSUME cur # "LOCKDOWN", cur' # "LOCKDOWN", prov' = prov, left'.reset = left.reset,
         bmc \in {"held", "released"}, bmc' = "released", ActiveOK' = ActiveOK,
         bmc = "held" /\ prov => ActiveOK
  PROVE  Guard!Release \/ UNCHANGED Guard!vars
<1>1. BmcImage' = BmcImage /\ (ActiveOK => BmcImage = "good")
  BY DEF BmcImage, ActiveOK
<1> QED
  BY <1>1 DEF Guard!Release, Guard!vars

\* A loss of the image under a BMC that runs.
LEMMA DamageG ==
  ASSUME (cur = "LOCKDOWN") = (cur' = "LOCKDOWN"), prov' = prov, left'.reset = left.reset,
         bmc = "released", bmc' = "released", ~ActiveOK'
  PROVE  Guard!Damage
<1>1. BmcImage' = "bad"
  BY DEF BmcImage, ActiveOK
<1> QED
  BY <1>1 DEF Guard!Damage

\* A restart keeps the image or loses it.
LEMMA RestartG ==
  ASSUME Reboot, ufm' \in BOOLEAN, ActiveOK' => ActiveOK,
         left'.reset < left.reset \/ (cur # "LOCKDOWN" /\ left' = left)
  PROVE  Guard!Restart
<1>1. BmcImage' \in {BmcImage, "bad"} /\ BmcImage' \in {"good", "bad"} /\ (BmcImage' = "good" => ufm')
  BY DEF BmcImage, ActiveOK
<1>2. bmc' = "held" /\ cur' # "LOCKDOWN" /\ prov' = ufm'
  BY DEF Reboot
<1> QED
  BY <1>1, <1>2 DEF Guard!Restart, Guard!Start

\* The steps that read the flash.
LEMMA VerifyG ==
  ASSUME IInv, QInv, XInv, Next, VerifyBegin \/ VerifySucceeds \/ VerifyFails
  PROVE  [Guard!Next]_(Guard!vars)
<1>1. /\ cur # "LOCKDOWN" /\ cur' # "LOCKDOWN" /\ UNCHANGED <<prov, ufm, flash, left>>
      /\ bmc \in {"held", "released"} /\ bmc' \in {bmc, "held", "released"}
  <2>1. cur = "VERIFY" /\ cur' = cur
    BY DEF VerifyBegin, VerifySucceeds, VerifyFails, IInv, Handling
  <2>2. UNCHANGED <<prov, ufm, flash, left>>
    BY DEF VerifyBegin, VerifySucceeds, VerifyFails
  <2>3. bmc' \in {bmc, "held", "released"}
    BY DEF VerifyBegin, VerifySucceeds, VerifyFails, BootHold, CheckAndReleasePlatform, T0Transition,
           linesVars
  <2> QED BY <2>1, <2>2, <2>3 DEF IInv, TypeOK
<1>2. ActiveOK' = ActiveOK /\ BmcImage' = BmcImage
  BY <1>1 DEF ActiveOK, BmcImage
<1>3. CASE bmc' = bmc
  BY <1>1, <1>2, <1>3, QuietG
<1>4. CASE bmc' = "held"
  BY <1>1, <1>2, <1>4, HoldG DEF Guard!Next
<1>5. CASE bmc' = "released"
  <2>1. bmc = "held" /\ prov => ActiveOK
    BY <1>5, ReleaseStep
  <2> QED BY <1>1, <1>2, <1>5, <2>1, ReleaseG DEF Guard!Next
<1> QED
  BY <1>1, <1>3, <1>4, <1>5

\* A recovery erases with the BMC held.
LEMMA RecoverBeginG ==
  ASSUME IInv, QInv, RecoverBegin PROVE [Guard!Next]_(Guard!vars)
<1>1. cur = "RECOVERY" /\ cur' = cur /\ UNCHANGED <<prov, ufm>>
  BY DEF RecoverBegin
<1>2. ctx.ao = "Bmc" /\ ao["Bmc"].pnc \in {0, 1}
  BY <1>1, Contexts
<1>3. CASE ao["Bmc"].pnc = 0
  <2>1. UNCHANGED <<bmc, flash, left>>
    BY <1>2, <1>3 DEF RecoverBegin
  <2>2. BmcImage' = BmcImage
    BY <1>1, <2>1 DEF BmcImage
  <2> QED BY <1>1, <2>1, <2>2, QuietG
<1>4. CASE ao["Bmc"].pnc = 1
  <2>1. bmc = "held"
    BY <1>4 DEF QInv, HeldInUse, InUse
  <2>2. bmc' = "held"
    BY <1>2, <1>4, <2>1 DEF RecoverBegin, BootHold
  <2>3. PICK o : flash' = Erased(flash, o) /\ Spend({x \in {o} : x.fault})
    BY <1>2, <1>4 DEF RecoverBegin
  <2>4. ActiveOK' => ActiveOK
    BY <1>1, <2>3 DEF ActiveOK, Erased, Images, Regions
  <2>5. left'.reset = left.reset
    BY <2>3 DEF Spend, IInv, TypeOK
  <2> QED BY <1>1, <2>2, <2>4, <2>5, HoldG DEF Guard!Next
<1> QED
  BY <1>2, <1>3, <1>4

\* What it restores it writes with the BMC held.
LEMMA RecoverSucceedsG ==
  ASSUME IInv, QInv, RecoverSucceeds PROVE [Guard!Next]_(Guard!vars)
<1>1. /\ cur = "RECOVERY" /\ pc = "recover" /\ UNCHANGED <<cur, bmc, prov, ufm, left>>
      /\ flash' = Written(flash, res)
  BY DEF RecoverSucceeds, IInv, Handling
<1>2. CASE <<"BMC", "active">> \in res.writes
  <2>1. bmc = "held"
    BY <1>1, <1>2 DEF QInv, Recovering, HeldInUse
  <2> QED BY <1>1, <2>1, RewriteG DEF Guard!Next
<1>3. CASE <<"BMC", "active">> \notin res.writes
  <2>1. flash'["BMC"]["active"] = flash["BMC"]["active"]
    BY <1>1, <1>3, TouchesWrites DEF Regions
  <2>2. BmcImage' = BmcImage
    BY <1>1, <2>1 DEF BmcImage
  <2> QED BY <1>1, <2>2, QuietG
<1> QED
  BY <1>2, <1>3

\* A recovery that fails locks a held BMC down, with the image it had, or
\* releases one whose active region is intact.
LEMMA RecoverFailsG ==
  ASSUME IInv, QInv, XInv, Writing, Next, RecoverFails PROVE [Guard!Next]_(Guard!vars)
<1>1. /\ cur = "RECOVERY" /\ pc = "recover" /\ res.status = "Failure" /\ UNCHANGED <<prov, ufm, left>>
      /\ flash' = Written(flash, res)
  BY DEF RecoverFails, IInv, Handling
<1>2. ctx.ao = "Bmc"
  BY <1>1, Contexts
<1>3. InUse /\ bmc = "held" /\ Bmc.type = "BMC"
  BY <1>1 DEF QInv, Recovering, HeldInUse, XInv, OfBmc
<1>4. flash'["BMC"]["active"] = flash["BMC"]["active"]
  <2>1. CASE <<"BMC", "active">> \in res.writes
    BY <1>1, <2>1, TouchesWrites DEF Writing, Regions
  <2>2. CASE <<"BMC", "active">> \notin res.writes
    BY <1>1, <2>2, TouchesWrites DEF Regions
  <2> QED BY <2>1, <2>2
<1>5. ActiveOK' = ActiveOK /\ BmcImage' = BmcImage
  BY <1>1, <1>4 DEF ActiveOK, BmcImage
<1>6. CASE cur' = "LOCKDOWN" /\ bmc' = bmc
  <2>1. Guard!Lock
    BY <1>1, <1>3, <1>5, <1>6 DEF Guard!Lock
  <2> QED BY <2>1 DEF Guard!Next
<1>7. CASE cur' = cur /\ bmc' = bmc
  BY <1>1, <1>5, <1>7, QuietG
<1>8. CASE cur' = cur /\ bmc' = "released"
  <2>1. bmc = "held" /\ prov => ActiveOK
    BY <1>8, ReleaseStep
  <2> QED BY <1>1, <1>3, <1>5, <1>8, <2>1, ReleaseG DEF Guard!Next
<1>9. (cur' = "LOCKDOWN" /\ bmc' = bmc) \/ (cur' = cur /\ bmc' \in {bmc, "released"})
  BY <1>2, <1>3 DEF RecoverFails, CheckAndReleasePlatform, T0Transition, linesVars, Bmc
<1> QED
  BY <1>6, <1>7, <1>8, <1>9

\* An update holds the BMC before it erases anything.
LEMMA UpdateBeginG ==
  ASSUME IInv, QInv, UpdateBegin PROVE [Guard!Next]_(Guard!vars)
<1>1. cur = "UPDATE" /\ cur' = cur /\ UNCHANGED <<prov, ufm>>
  BY DEF UpdateBegin
<1>2. CASE ao[ctx.ao].pnc = 0
  <2>1. UNCHANGED <<bmc, flash, left>>
    BY <1>2 DEF UpdateBegin
  <2>2. BmcImage' = BmcImage
    BY <1>1, <2>1 DEF BmcImage
  <2> QED BY <1>1, <2>1, <2>2, QuietG
<1>3. CASE ao[ctx.ao].pnc # 0
  <2>1. bmc' = "held"
    BY <1>3 DEF UpdateBegin, BootHold
  <2>2. PICK o : flash' = Erased(flash, o) /\ Spend({x \in {o} : x.fault})
    BY <1>3, Zenon DEF UpdateBegin
  <2>3. ActiveOK' => ActiveOK
    BY <1>1, <2>2 DEF ActiveOK, Erased, Images, Regions
  <2>4. left'.reset = left.reset
    BY <2>2 DEF Spend, IInv, TypeOK
  <2> QED BY <1>1, <2>1, <2>3, <2>4, HoldG DEF Guard!Next
<1> QED
  BY <1>2, <1>3

\* What an update writes it writes with the BMC held; a decommissioning makes
\* every image fail.
LEMMA UpdateEndG ==
  ASSUME IInv, QInv, UpdateEnd PROVE [Guard!Next]_(Guard!vars)
<1>1. /\ cur = "UPDATE" /\ pc = "update" /\ UNCHANGED <<cur, bmc, prov, left>>
      /\ flash' = Written(flash, res) /\ ufm' = (ufm /\ ~res.decommissions)
      /\ bmc \in {"held", "released"} /\ ufm \in BOOLEAN
  BY DEF UpdateEnd, Persisted, IInv, TypeOK, Handling
<1>2. CASE bmc = "held"
  BY <1>1, <1>2, RewriteG DEF Guard!Next
<1>3. CASE bmc = "released"
  <2>1. <<"BMC", "active">> \notin res.writes
    BY <1>1, <1>3 DEF IInv, UpdateHoldsBoth
  <2>2. flash'["BMC"]["active"] = flash["BMC"]["active"]
    BY <1>1, <2>1, TouchesWrites DEF Regions
  <2>3. CASE ActiveOK'
    <3>1. BmcImage' = BmcImage
      BY <1>1, <2>2, <2>3 DEF BmcImage, ActiveOK
    <3> QED BY <1>1, <3>1, QuietG
  <2>4. CASE ~ActiveOK'
    BY <1>1, <1>3, <2>4, DamageG DEF Guard!Next
  <2> QED BY <2>3, <2>4
<1> QED
  BY <1>1, <1>2, <1>3

\* PublishInitialEvents finds a provisioned BMC held, keeps it held while
\* check_staging_area rewrites, and releases one without provisioning.
LEMMA PublishG ==
  ASSUME IInv, NEW q, PublishInitialEvents(q), cur # "LOCKDOWN", cur' # "LOCKDOWN", prov' = prov,
         prov => bmc = "held"
  PROVE  [Guard!Next]_(Guard!vars)
<1>1. CASE prov /\ check_staging_area
  <2>1. bmc' = "held"
    BY <1>1 DEF check_staging_area, BootHold
  <2>2. left'.reset = left.reset
    <3>1. PICK b, p : Spend({o \in {b, p} : o.fault})
      BY <1>1 DEF check_staging_area
    <3> QED BY <3>1 DEF Spend, IInv, TypeOK
  <2> QED BY <1>1, <2>1, <2>2, RewriteG DEF Guard!Next
<1>2. CASE ~prov /\ bmc' = "released" /\ UNCHANGED <<ufm, flash, left>>
  <2>1. ActiveOK' = ActiveOK
    BY <1>2 DEF ActiveOK
  <2>2. bmc \in {"held", "released"}
    BY DEF IInv, TypeOK
  <2> QED BY <1>2, <2>1, <2>2, ReleaseG DEF Guard!Next
<1> QED
  BY <1>1, <1>2 DEF PublishInitialEvents, T0Transition

\* The two places that call it.
LEMMA InitialG ==
  ASSUME IInv, QInv, IdleInitialize \/ UpdatePublish PROVE [Guard!Next]_(Guard!vars)
<1>1. CASE IdleInitialize
  <2>1. Booting
    <3>1. ASSUME Running PROVE FALSE
      <4>1. evq \in Seq(Matched) /\ evq # <<>> /\ Head(evq).state = "INITIALIZE"
        BY <1>1, <3>1 DEF Running, IdleInitialize
      <4>2. Head(evq) \in Matched
        BY <4>1
      <4> QED BY <4>1, <4>2 DEF Matched
    <3> QED BY <3>1 DEF IInv
  <2>2. cur = "IDLE" /\ cur' = cur /\ prov' = prov /\ bmc = "held" /\ PublishInitialEvents(Tail(evq))
    BY <1>1, <2>1 DEF Booting, IdleInitialize
  <2> QED BY <2>2, PublishG
<1>2. CASE UpdatePublish
  <2>1. /\ cur = "UPDATE" /\ cur' = cur /\ pc = "publish" /\ prov' = prov
        /\ PublishInitialEvents(evq)
    BY <1>2 DEF UpdatePublish, IInv, Handling
  <2>2. prov => bmc = "held"
    BY <2>1 DEF QInv, Updating
  <2> QED BY <2>1, <2>2, PublishG
<1> QED
  BY <1>1, <1>2

\* A restart after an update of the HRoT, or a reset.
LEMMA StartG ==
  ASSUME IInv, QInv, Writing, UpdateReboot \/ Reset PROVE [Guard!Next]_(Guard!vars)
<1>1. ufm \in BOOLEAN /\ left.reset \in Nat
  BY DEF IInv, TypeOK
<1>2. CASE UpdateReboot
  <2>1. /\ cur = "UPDATE" /\ pc = "update" /\ left' = left /\ Reboot /\ flash' = Written(flash, res)
        /\ ufm' = (ufm /\ ~res.decommissions)
    BY <1>2 DEF UpdateReboot, Persisted, IInv, Handling
  <2>2. ctx.ao = "Update"
    BY <2>1, Contexts
  <2>3. <<"BMC", "active">> \notin res.writes
    BY <1>2, <2>1, <2>2 DEF UpdateReboot, Reboots, Writing
  <2>4. ActiveOK' => ActiveOK
    BY <2>1, <2>3, TouchesWrites DEF ActiveOK, Regions
  <2>5. ufm' \in BOOLEAN
    BY <2>1
  <2> QED BY <2>1, <2>4, <2>5, RestartG DEF Guard!Next
<1>3. CASE Reset
  <2>1. Reboot /\ flash' = flash /\ ufm' \in {ufm, FALSE}
    BY <1>3 DEF Reset
  <2>2. left'.reset < left.reset
    BY <1>1, <1>3 DEF Reset, IInv, TypeOK
  <2>3. ActiveOK' => ActiveOK
    BY <2>1 DEF ActiveOK
  <2> QED BY <1>1, <2>1, <2>2, <2>3, RestartG DEF Guard!Next
<1> QED
  BY <1>2, <1>3

\* A command moves no line; a provisioning command turns the protection off.
LEMMA RunI2cG ==
  ASSUME IInv, RunI2c PROVE [Guard!Next]_(Guard!vars)
<1>1. cur = "I2C" /\ UNCHANGED <<cur, bmc, flash, left>>
  BY DEF RunI2c
<1>2. UNCHANGED <<prov, ufm>> \/ prov' = FALSE
  BY DEF RunI2c
<1>3. CASE UNCHANGED <<prov, ufm>>
  <2>1. BmcImage' = BmcImage
    BY <1>1, <1>3 DEF BmcImage
  <2> QED BY <1>1, <1>3, <2>1, QuietG
<1>4. CASE prov' = FALSE
  <2>1. BmcImage' \in {"good", "bad"}
    BY DEF BmcImage
  <2>2. Guard!Disable
    BY <1>1, <1>4, <2>1 DEF Guard!Disable
  <2> QED BY <2>2 DEF Guard!Next
<1> QED
  BY <1>2, <1>3, <1>4

\* A released BMC that damages its active region.
LEMMA CorruptG ==
  ASSUME IInv, NEW i \in Images, NEW r \in Regions, Corrupt(i, r) PROVE [Guard!Next]_(Guard!vars)
<1>1. UNCHANGED <<cur, bmc, prov, ufm>> /\ left'.reset = left.reset
  BY DEF Corrupt, IInv, TypeOK
<1>2. CASE i = "BMC" /\ r = "active"
  <2>1. bmc = "released" /\ flash'["BMC"]["active"] = "bad"
    BY <1>2 DEF Corrupt, IInv, TypeOK, Flash, Images, Regions
  <2>2. ~ActiveOK'
    BY <2>1 DEF ActiveOK
  <2> QED BY <1>1, <2>1, <2>2, DamageG DEF Guard!Next
<1>3. CASE ~(i = "BMC" /\ r = "active")
  <2>1. flash'["BMC"]["active"] = flash["BMC"]["active"]
    BY <1>3 DEF Corrupt, IInv, TypeOK, Flash, Images, Regions
  <2>2. BmcImage' = BmcImage
    BY <1>1, <2>1 DEF BmcImage
  <2> QED BY <1>1, <2>2, QuietG
<1> QED
  BY <1>2, <1>3

\* The steps that only move events and objects.
LEMMA StillG ==
  ASSUME IInv, IdleEmpty \/ IdleDispatch \/ RunLockdown \/ \E c \in Commands : I2cWrite(c)
  PROVE  [Guard!Next]_(Guard!vars)
<1>1. UNCHANGED <<bmc, prov, ufm, flash>> /\ left'.reset = left.reset
  BY DEF IdleEmpty, IdleDispatch, RunLockdown, I2cWrite, IInv, TypeOK
<1>2. (cur = "LOCKDOWN") = (cur' = "LOCKDOWN")
  <2>1. CASE IdleDispatch
    <3>1. Head(evq) \in SmcEvent
      BY <2>1 DEF IdleDispatch, IInv, TypeOK
    <3>2. cur' # "LOCKDOWN"
      BY <2>1, <3>1 DEF IdleDispatch, SmcEvent, Events
    <3>3. cur # "LOCKDOWN"
      BY <2>1 DEF IdleDispatch, AtIdle, IInv, Handling
    <3> QED BY <3>2, <3>3
  <2>2. CASE cur' = cur
    BY <2>2
  <2> QED BY <2>1, <2>2 DEF IdleEmpty, RunLockdown, I2cWrite
<1>3. BmcImage' = BmcImage
  BY <1>1 DEF BmcImage
<1> QED
  BY <1>1, <1>2, <1>3, QuietG

\* Every step is one that Platform allows.
LEMMA NextG ==
  ASSUME IInv, QInv, XInv, Writing, [Next]_vars PROVE [Guard!Next]_(Guard!vars)
<1>1. CASE UNCHANGED vars
  <2>1. BmcImage' = BmcImage /\ UNCHANGED <<bmc, prov, cur, left>>
    BY <1>1 DEF vars, BmcImage
  <2> QED BY <2>1, QuietG
<1>2. CASE Next
  <2>1. left.bmcReset = 0 /\ left.timeout = 0
    BY DEF QInv, NoInterrupts
  <2>2. ~BmcReset /\ \A i \in Images : ~WdtTimeout(i)
    BY <2>1 DEF BmcReset, WdtTimeout
  <2>3. CASE MainThread
    BY <1>2, <2>3, StillG, InitialG, VerifyG, RecoverBeginG, RecoverSucceedsG, RecoverFailsG,
       UpdateBeginG, UpdateEndG, StartG, RunI2cG DEF MainThread
  <2>4. CASE Interrupt
    BY <2>2, <2>4, StillG DEF Interrupt
  <2>5. CASE Environment
    BY <2>5, StartG, CorruptG DEF Environment
  <2> QED BY <1>2, <2>3, <2>4, <2>5 DEF Next
<1> QED
  BY <1>1, <1>2

\* The initial states are Platform's.
LEMMA InitG == Init => Guard!Init /\ Writing
<1>1. ASSUME Init PROVE Guard!Init
  <2>1. bmc = "held" /\ cur = "IDLE" /\ prov = ufm /\ ufm \in BOOLEAN /\ left.reset \in Nat
    BY <1>1, BoundsAssumption DEF Init, Boot
  <2>2. BmcImage \in {"good", "bad"} /\ (BmcImage = "good" => prov)
    BY <2>1 DEF BmcImage
  <2> QED BY <2>1, <2>2 DEF Guard!Init, Guard!Start
<1>2. ASSUME Init PROVE Writing
  BY <1>2 DEF Init, Boot, BlankAO, AOs, Writing
<1> QED
  BY <1>1, <1>2

\* The HRoT implements Platform, for any number of commands, corruptions and
\* resets and any queue capacity, under the hypotheses of ReleasesAreIntact.
THEOREM ImplementsPlatform ==
  ASSUME MaxBmcReset = 0, MaxTimeout = 0, MaxFault = 0
  PROVE  Spec /\ CommandsInTurn => PlatformSpec
<1>1. Init => XInv
  BY InitX
<1>2. IInv /\ QInv /\ XInv /\ [Next]_vars => XInv'
  BY NextX
<1>3. IInv /\ QInv /\ Writing /\ [Next]_vars => Writing'
  BY NextW
<1>4. IInv /\ QInv /\ XInv /\ Writing /\ [Next]_vars => [Guard!Next]_(Guard!vars)
  BY NextG
<1>5. Init => Guard!Init /\ Writing
  BY InitG
<1> QED
  BY <1>1, <1>2, <1>3, <1>4, <1>5, Invariance, QInvariance, PTL DEF Spec, PlatformSpec, Guard!Spec

-----------------------------------------------------------------------------
(* Lockdowns                                                               *)

\* The BMC writes a command only when no event waits and no update is to be made.
CommandsAtRest == [][left'.cmd < left.cmd => evq = <<>> /\ ao["Update"].pnc = 0]_vars

\* A verification with a context in E waits in the queue q, before any recovery.
Coming(q, E) ==
  \E k \in 1..Len(q) : /\ q[k].state = "VERIFY" /\ q[k].ev \in E
                       /\ \A j \in 1..Len(q) : j < k => q[j].state # "RECOVERY"

\* Where no recovery waits, one with the context Bmc1.
Published(q) == ~Waits(q, "RECOVERY") /\ \E k \in 1..Len(q) : q[k].state = "VERIFY" /\ q[k].ev = "Bmc1"

\* An intact active region that is not marked Success will be verified before a
\* recovery is tried.
Heard ==
  prov /\ InUse /\ Bmc.active # "Success" /\ ActiveOK =>
    /\ ~Inside("RECOVERY")
    /\ \/ Inside("UPDATE")
       \/ Inside("VERIFY") /\ ctx.ev \in ActiveEvs
       \/ Coming(evq, ActiveEvs)

\* A verification of the active region that fails found it bad.
Refuting == pc = "auth" /\ ctx.ev \in ActiveEvs /\ res.status = "Failure" => ~ActiveOK

\* A recovery that does not restore the active region leaves it alone.
Sparing ==
  pc = "recover" /\ InUse /\ res.status \in {"VerifyRecovery", "Success"} =>
    <<"BMC", "active">> \notin res.writes

\* A command that waits finds the object not in use and a short queue.
AtRest ==
  prov /\ ao["I2c"].pnc = 1 =>
    /\ ~InUse /\ cur # "UPDATE" /\ ao["Update"].pnc = 0
    /\ Len(evq) <= 3
    /\ Inside("RECOVERY") => Len(evq) <= 1
    /\ cur = "I2C" /\ pc = "run" => Len(evq) <= 2

\* So does an update that is to be made, and the first one to publish finds
\* room for the initial events.
FirstUpdate ==
  prov /\ ao["Update"].pnc = 1 =>
    /\ ~InUse /\ ~Waits(evq, "RECOVERY") /\ cur \notin {"IDLE", "RECOVERY"}
    /\ Len(evq) <= 5
    /\ cur = "UPDATE" => Len(evq) <= 4

\* The ones after it find room, or the initial events still waiting.
LaterUpdates ==
  prov /\ cur = "UPDATE" /\ ao["Update"].pnc = 0 =>
    ~Waits(evq, "RECOVERY") /\ (Len(evq) <= 4 \/ Published(evq))

HInv == Heard /\ Refuting /\ Sparing /\ AtRest /\ FirstUpdate /\ LaterUpdates

\* Taking the first event off.
LEMMA TailComing ==
  ASSUME NEW q \in Seq(SmcEvent), q # <<>>, NEW E
  PROVE  /\ Coming(q, E) => /\ Head(q).state # "RECOVERY"
                            /\ \/ Head(q).state = "VERIFY" /\ Head(q).ev \in E
                               \/ Coming(Tail(q), E)
         /\ Published(q) /\ Head(q).state # "VERIFY" => Published(Tail(q))
<1> DEFINE r == Tail(q)
<1>1. /\ Len(r) = Len(q) - 1 /\ Len(q) \in Nat /\ Len(q) >= 1
      /\ \A k \in 1..Len(r) : r[k] = q[k + 1] /\ k + 1 \in 1..Len(q)
      /\ Head(q) = q[1] /\ 1 \in 1..Len(q)
  OBVIOUS
<1>2. \A k \in 1..Len(q) : k # 1 => k - 1 \in 1..Len(r) /\ q[k] = r[k - 1] /\ 1 < k
  OBVIOUS
<1>3. \A s : Waits(r, s) => Waits(q, s)
  BY TailOrder
<1> HIDE DEF r
<1>4. ASSUME Coming(q, E)
      PROVE  /\ Head(q).state # "RECOVERY"
             /\ (Head(q).state = "VERIFY" /\ Head(q).ev \in E) \/ Coming(r, E)
  <2>1. PICK k \in 1..Len(q) : /\ q[k].state = "VERIFY" /\ q[k].ev \in E
                               /\ \A j \in 1..Len(q) : j < k => q[j].state # "RECOVERY"
    BY <1>4 DEF Coming
  <2>2. CASE k = 1
    BY <1>1, <2>1, <2>2
  <2>3. CASE k # 1
    <3>1. k - 1 \in 1..Len(r) /\ q[k] = r[k - 1] /\ Head(q).state # "RECOVERY"
      BY <1>1, <1>2, <2>1, <2>3
    <3>2. ASSUME NEW j \in 1..Len(r), j < k - 1 PROVE r[j].state # "RECOVERY"
      <4>1. j + 1 \in 1..Len(q) /\ j + 1 < k /\ r[j] = q[j + 1]
        BY <1>1, <3>2
      <4> QED BY <2>1, <4>1
    <3> QED BY <2>1, <3>1, <3>2 DEF Coming
  <2> QED BY <2>2, <2>3
<1>5. ASSUME Published(q), Head(q).state # "VERIFY" PROVE Published(r)
  <2>1. PICK k \in 1..Len(q) : q[k].state = "VERIFY" /\ q[k].ev = "Bmc1"
    BY <1>5 DEF Published
  <2>2. k - 1 \in 1..Len(r) /\ q[k] = r[k - 1]
    BY <1>1, <1>2, <1>5, <2>1
  <2>3. ~Waits(r, "RECOVERY")
    BY <1>3, <1>5 DEF Published
  <2> QED BY <2>1, <2>2, <2>3 DEF Published
<1> QED
  BY <1>4, <1>5 DEF r

\* Events that come later take no verification away.
LEMMA LongerComing ==
  ASSUME NEW q \in Seq(SmcEvent), NEW r, Longer(q, r), NEW E, NEW F, E \subseteq F
  PROVE  /\ Coming(q, E) => Coming(r, F)
         /\ Published(q) /\ ~Waits(r, "RECOVERY") => Published(r)
<1>1. /\ Len(q) \in Nat /\ Len(r) \in Nat /\ Len(q) <= Len(r)
      /\ \A k \in 1..Len(q) : k \in 1..Len(r) /\ r[k] = q[k]
  BY DEF Longer
<1>2. ASSUME Coming(q, E) PROVE Coming(r, F)
  <2>1. PICK k \in 1..Len(q) : /\ q[k].state = "VERIFY" /\ q[k].ev \in E
                               /\ \A j \in 1..Len(q) : j < k => q[j].state # "RECOVERY"
    BY <1>2 DEF Coming
  <2>2. \A j \in 1..Len(r) : j < k => j \in 1..Len(q) /\ r[j] = q[j]
    BY <1>1
  <2>3. k \in 1..Len(r) /\ r[k].state = "VERIFY" /\ r[k].ev \in F
    BY <1>1, <2>1
  <2>4. \A j \in 1..Len(r) : j < k => r[j].state # "RECOVERY"
    BY <2>1, <2>2
  <2> QED BY <2>3, <2>4 DEF Coming
<1>3. ASSUME Published(q), ~Waits(r, "RECOVERY") PROVE Published(r)
  BY <1>1, <1>3 DEF Published
<1> QED
  BY <1>2, <1>3

\* What is published waits before any recovery.
LEMMA PublishedComing ==
  ASSUME NEW q, Published(q), NEW E, "Bmc1" \in E PROVE Coming(q, E)
  BY DEF Published, Coming, Waits

\* A posted event comes last, whatever it is.
LEMMA AnyLonger ==
  ASSUME NEW q \in Seq(SmcEvent), NEW state, NEW a, NEW e,
         [state |-> state, ao |-> a, ev |-> e] \in SmcEvent
  PROVE  Longer(q, post_smc_action(q, state, a, e))
<1> DEFINE x == [state |-> state, ao |-> a, ev |-> e]
<1>1. post_smc_action(q, state, a, e) = IF Len(q) < QMax THEN Append(q, x) ELSE q
  BY DEF post_smc_action
<1>2. x \in SmcEvent
  OBVIOUS
<1> HIDE DEF x
<1> QED
  BY <1>1, <1>2 DEF Longer

\* PublishInitialEvents on a provisioned platform leaves the verification of
\* the active region waiting, if there is room for it or it waits already.
LEMMA PublishH ==
  ASSUME IInv, QMax >= 6, prov, NEW q \in Seq(SmcEvent), PublishInitialEvents(q),
         ~Waits(q, "RECOVERY"), Len(q) <= 4 \/ Published(q)
  PROVE  Published(evq') /\ "Bmc1" \in ActiveEvs'
<1>1. PublishBmcEvents(q)
  BY DEF PublishInitialEvents
<1>2. "Bmc1" \in ActiveEvs'
  <2>1. ev \in [Evs -> EventContext] /\ "Bmc0" \in Evs /\ "Bmc1" \in Evs
    BY DEF IInv, TypeOK, Evs
  <2>2. ev'["Bmc1"].op = "VERIFY_ACTIVE"
    BY <1>1, <2>1 DEF PublishBmcEvents
  <2> QED BY <2>1, <2>2 DEF ActiveEvs
<1>3. ~Waits(evq', "RECOVERY")
  BY PublishOrder
<1>4. PICK once : once = post_smc_action(q, "VERIFY", "Bmc", "Bmc0")
  OBVIOUS
<1>5. evq' = post_smc_action(once, "VERIFY", "Bmc", "Bmc1")
  BY <1>1, <1>4 DEF PublishBmcEvents
<1>6. once \in Seq(SmcEvent) /\ Longer(q, once) /\ (Len(q) < QMax => Len(once) = Len(q) + 1)
  BY <1>4, PostLonger DEF Longer
<1>7. /\ Longer(once, evq')
      /\ Len(once) < QMax => /\ Len(evq') = Len(once) + 1
                             /\ evq'[Len(evq')].state = "VERIFY" /\ evq'[Len(evq')].ev = "Bmc1"
  BY <1>5, <1>6, PostLonger
<1>8. CASE Len(q) <= 4
  <2>1. Len(q) \in Nat /\ QMax \in Nat
    BY BoundsAssumption
  <2>2. Len(once) = Len(q) + 1 /\ Len(once) < QMax
    BY <1>6, <1>8, <2>1
  <2>3. Len(evq') \in 1..Len(evq')
    BY <1>7, <2>1, <2>2
  <2> QED BY <1>2, <1>3, <1>7, <2>2, <2>3 DEF Published
<1>9. CASE Published(q)
  <2>1. Longer(q, evq')
    <3>1. /\ Len(q) \in Nat /\ Len(once) \in Nat /\ Len(q) <= Len(once) /\ Len(once) <= Len(evq')
          /\ evq' \in Seq(SmcEvent) /\ Len(evq') \in Nat
      BY <1>6, <1>7 DEF Longer
    <3>2. \A k \in 1..Len(q) : k \in 1..Len(once)
      BY <3>1
    <3>3. \A k \in 1..Len(q) : evq'[k] = q[k]
      BY <1>6, <1>7, <3>2 DEF Longer
    <3> QED BY <3>1, <3>3 DEF Longer
  <2> QED BY <1>2, <1>3, <1>9, <2>1, LongerComing
<1> QED
  BY <1>8, <1>9

\* A step that leaves the state, the queue and what the other objects have to
\* process alone keeps what the invariant says of commands and updates.
LEMMA StillH ==
  ASSUME HInv, UNCHANGED <<cur, evq, prov>>,
         ao'["I2c"].pnc = ao["I2c"].pnc, ao'["Update"].pnc = ao["Update"].pnc, InUse' => InUse,
         cur = "RECOVERY" /\ pc' # "parent" => pc # "parent",
         cur = "I2C" /\ pc' = "run" => pc = "run"
  PROVE  AtRest' /\ FirstUpdate' /\ LaterUpdates'
<1>1. AtRest'
  BY DEF HInv, AtRest, Inside
<1>2. FirstUpdate' /\ LaterUpdates'
  BY DEF HInv, FirstUpdate, LaterUpdates, Waits, Published
<1> QED
  BY <1>1, <1>2

\* An object that is not in use makes no claim.
LEMMA NotInUseH ==
  ASSUME ~InUse', pc' # "auth", AtRest', FirstUpdate', LaterUpdates'
  PROVE  HInv'
  BY DEF HInv, Heard, Refuting, Sparing

\* run_verify up to the authentication.
LEMMA VerifyBeginH ==
  ASSUME IInv, QInv, HInv, VerifyBegin PROVE HInv'
<1>1. cur = "VERIFY" /\ pc = "run" /\ UNCHANGED <<cur, ctx, evq, ao, ev, ufm, flash, prov>>
  BY DEF VerifyBegin
<1>2. ctx.ao = "Bmc" /\ ctx.ev \in {"Bmc0", "Bmc1"} /\ ao["Bmc"].pnc \in {0, 1}
  BY <1>1, Contexts
<1>3. InUse' = InUse
  BY <1>1 DEF InUse
<1>4. AtRest' /\ FirstUpdate' /\ LaterUpdates'
  BY <1>1, <1>3, StillH
<1>5. CASE ~InUse
  <2>1. pc' = "parent"
    BY <1>1, <1>2, <1>5 DEF VerifyBegin, InUse
  <2> QED BY <1>3, <1>4, <1>5, <2>1, NotInUseH
<1>6. CASE InUse
  <2>1. pc' = "auth" /\ res' = authentication_image(ctx.ev)
    BY <1>1, <1>2, <1>6 DEF VerifyBegin, InUse
  <2>2. ActiveOK' = ActiveOK /\ ActiveEvs' = ActiveEvs /\ Bmc' = Bmc
    BY <1>1 DEF ActiveOK, ActiveEvs, Bmc
  <2>3. ctx.ev \in ActiveEvs => res' = Untouched(IF ActiveOK THEN "Success" ELSE "Failure", flash)
    <3>1. ev[ctx.ev].image = "BMC"
      BY <1>2, <1>6, ImageNamed
    <3> QED BY <2>1, <3>1 DEF authentication_image, ActiveEvs, ActiveOK
  <2>4. ctx.ev \in ActiveEvs /\ res'.status = "Failure" => ~ActiveOK
    <3>1. Untouched("Success", flash).status = "Success"
      BY UntouchedType DEF IInv, TypeOK
    <3> QED BY <2>3, <3>1
  <2>5. Refuting' /\ Sparing'
    BY <1>1, <2>1, <2>2, <2>4 DEF Refuting, Sparing
  <2>6. Heard'
    BY <1>1, <1>3, <2>1, <2>2 DEF HInv, Heard, Inside
  <2> QED BY <1>4, <2>5, <2>6 DEF HInv
<1> QED
  BY <1>5, <1>6

\* handlePostVerifySuccess: a verification of the recovery region leaves the one
\* of the active region waiting.
LEMMA VerifySucceedsH ==
  ASSUME IInv, QInv, HInv, VerifySucceeds PROVE HInv'
<1>1. /\ cur = "VERIFY" /\ pc = "auth" /\ pc' = "parent"
      /\ UNCHANGED <<cur, ctx, evq, ev, ufm, flash, prov>>
  BY DEF VerifySucceeds, IInv, Handling
<1>2. ctx.ao = "Bmc" /\ ctx.ev \in {"Bmc0", "Bmc1"} /\ ctx.ev \in Evs /\ "Bmc" \in AOs
      /\ ao["Bmc"] \in AoData
  BY <1>1, Contexts, Objects DEF IInv, Evs
<1> DEFINE d == Verified(ao["Bmc"], ctx.ev, "Success")
           done == d.active = "Success" /\ d.recovery = "Success"
           x == IF done THEN [d EXCEPT !.pnc = 0] ELSE d
<1>3. /\ d \in AoData /\ d.pnc = ao["Bmc"].pnc
      /\ ctx.ev \in ActiveEvs => d.active = "Success"
      /\ ctx.ev \notin ActiveEvs => d.active = ao["Bmc"].active
  BY <1>2, VerifiedFields DEF Status
<1>4. x \in AoData /\ x.active = d.active /\ (x.pnc = 1 => d.pnc = 1)
  BY <1>3 DEF AoData
<1>5. ao' = [ao EXCEPT !["Bmc"] = x]
  BY <1>2 DEF VerifySucceeds
<1> HIDE DEF x, d
<1>6. Bmc' = x /\ ao'["I2c"] = ao["I2c"] /\ ao'["Update"] = ao["Update"]
  BY <1>2, <1>4, <1>5, AoStore DEF IInv, AOs, Bmc
<1>7. InUse' => InUse
  BY <1>3, <1>4, <1>6 DEF InUse, Bmc
<1>8. AtRest' /\ FirstUpdate' /\ LaterUpdates'
  BY <1>1, <1>6, <1>7, StillH
<1>9. ActiveOK' = ActiveOK /\ ActiveEvs' = ActiveEvs
  BY <1>1 DEF ActiveOK, ActiveEvs
<1>10. Heard'
  <2>1. CASE ctx.ev \in ActiveEvs
    BY <1>3, <1>4, <1>6, <2>1 DEF Heard
  <2>2. CASE ctx.ev \notin ActiveEvs
    <3>1. Bmc'.active = Bmc.active
      BY <1>3, <1>4, <1>6, <2>2 DEF Bmc
    <3>2. prov /\ InUse /\ Bmc.active # "Success" /\ ActiveOK => Coming(evq, ActiveEvs)
      BY <1>1, <2>2 DEF HInv, Heard, Inside
    <3> QED BY <1>1, <1>7, <1>9, <3>1, <3>2 DEF Heard, Inside
  <2> QED BY <2>1, <2>2
<1>11. Refuting' /\ Sparing'
  BY <1>1 DEF Refuting, Sparing
<1> QED
  BY <1>8, <1>10, <1>11 DEF HInv

\* handlePostVerifyFailure: the recovery it posts for the recovery region waits
\* behind the verification of the active one.
LEMMA VerifyFailsH ==
  ASSUME IInv, QInv, HInv, VerifyFails PROVE HInv'
<1>1. /\ cur = "VERIFY" /\ pc = "auth" /\ pc' = "parent" /\ res.status = "Failure"
      /\ UNCHANGED <<cur, ctx, ufm, flash, prov>>
  BY DEF VerifyFails, IInv, Handling
<1>2. ctx.ao = "Bmc" /\ ctx.ev \in {"Bmc0", "Bmc1"} /\ ctx.ev \in Evs /\ "Bmc" \in AOs
      /\ ao["Bmc"] \in AoData /\ evq \in Seq(SmcEvent)
  BY <1>1, Contexts, Objects DEF IInv, Evs
<1> DEFINE d == Verified(ao["Bmc"], ctx.ev, "Failure")
<1>3. /\ d \in AoData /\ d.pnc = ao["Bmc"].pnc
      /\ ctx.ev \notin ActiveEvs => d.active = ao["Bmc"].active
  BY <1>2, VerifiedFields DEF Status
<1>4. PICK x \in AoData : /\ x.pnc = d.pnc /\ x.active = d.active
                          /\ ao' = [ao EXCEPT !["Bmc"] = x]
  <2>1. [d EXCEPT !.prev = "Verify"] \in AoData /\ [d EXCEPT !.prev = "Verify"].pnc = d.pnc
        /\ [d EXCEPT !.prev = "Verify"].active = d.active
    BY <1>3 DEF AoData
  <2> QED BY <1>2, <1>3, <2>1 DEF VerifyFails
<1>5. /\ InUse => ev' = [ev EXCEPT ![ctx.ev].op = "RECOVER_ACTIVE"]
      /\ InUse => evq' = post_smc_action(evq, "RECOVERY", "Bmc", ctx.ev)
      /\ ~InUse => evq' = evq
  BY <1>2, <1>3 DEF VerifyFails, InUse
<1> HIDE DEF d
<1>6. Bmc' = x /\ ao'["I2c"] = ao["I2c"] /\ ao'["Update"] = ao["Update"]
  BY <1>2, <1>4, AoStore DEF IInv, AOs, Bmc
<1>7. InUse' = InUse
  BY <1>3, <1>4, <1>6 DEF InUse, Bmc
<1>8. CASE ~InUse
  <2>1. AtRest' /\ FirstUpdate' /\ LaterUpdates'
    BY <1>1, <1>5, <1>6, <1>7, <1>8, StillH
  <2> QED BY <1>1, <1>7, <1>8, <2>1, NotInUseH
<1>9. CASE InUse
  <2>1. AtRest' /\ FirstUpdate' /\ LaterUpdates'
    BY <1>1, <1>6, <1>9 DEF HInv, AtRest, FirstUpdate, LaterUpdates
  <2>2. ActiveOK' = ActiveOK
    BY <1>1 DEF ActiveOK
  <2>3. Heard'
    <3>1. CASE ctx.ev \in ActiveEvs
      <4>1. ~ActiveOK
        BY <1>1, <3>1 DEF HInv, Refuting
      <4> QED BY <2>2, <4>1 DEF Heard
    <3>2. CASE ctx.ev \notin ActiveEvs
      <4>1. Bmc'.active = Bmc.active
        BY <1>3, <1>4, <1>6, <3>2 DEF Bmc
      <4>2. prov /\ Bmc.active # "Success" /\ ActiveOK => Coming(evq, ActiveEvs)
        BY <1>1, <1>9, <3>2 DEF HInv, Heard, Inside
      <4>3. ActiveEvs \subseteq ActiveEvs'
        <5>1. ev \in [Evs -> EventContext]
          BY DEF IInv, TypeOK
        <5>2. \A e \in Evs : e # ctx.ev => ev'[e] = ev[e]
          BY <1>2, <1>5, <1>9, <5>1
        <5> QED BY <3>2, <5>2 DEF ActiveEvs
      <4>4. [state |-> "RECOVERY", ao |-> "Bmc", ev |-> ctx.ev] \in SmcEvent
        BY <1>2 DEF SmcEvent, Events, AOs
      <4>5. Longer(evq, evq')
        BY <1>2, <1>5, <1>9, <4>4, AnyLonger
      <4>6. Coming(evq, ActiveEvs) => Coming(evq', ActiveEvs')
        BY <1>2, <4>3, <4>5, LongerComing
      <4> QED BY <1>1, <2>2, <4>1, <4>2, <4>6 DEF Heard, Inside
    <3> QED BY <3>1, <3>2
  <2>4. Refuting' /\ Sparing'
    BY <1>1 DEF Refuting, Sparing
  <2> QED BY <2>1, <2>3, <2>4 DEF HInv
<1> QED
  BY <1>8, <1>9

\* A recovery that ends as one of the recovery region, or finds nothing to do,
\* leaves the active one alone.
LEMMA RecoverSpares ==
  ASSUME TypeOK, NEW d, NEW o \in recover_image(d, "BMC"), o.status \in {"VerifyRecovery", "Success"}
  PROVE  <<"BMC", "active">> \notin o.writes
<1>1. flash \in Flash /\ "active" \in Regions /\ "recovery" \in Regions
  BY DEF TypeOK, Regions
<1>2. Untouched("Failure", flash).writes = {} /\ Untouched("Success", flash).writes = {}
  BY <1>1, UntouchedType
<1>3. CASE d.recovery # "Success"
  <2>1. RecoverySources(d, "BMC") \subseteq {flash}
    BY DEF RecoverySources
  <2>2. \/ o = Untouched("Failure", flash)
        \/ \E st, c, b : o = Outcome(st, flash, Put(flash, "BMC", "recovery", c),
                                     {<<"BMC", "recovery">>}, b)
    BY <1>3, <2>1 DEF recover_image
  <2>3. ASSUME NEW st, NEW c, NEW b, o = Outcome(st, flash, Put(flash, "BMC", "recovery", c),
                                                 {<<"BMC", "recovery">>}, b)
        PROVE  <<"BMC", "recovery">> \in o.writes /\ <<"BMC", "active">> \notin o.writes
    BY <1>1, <2>3, PutWrites
  <2> QED BY <1>2, <2>2, <2>3
<1>4. CASE d.recovery = "Success" /\ d.active = "Success"
  BY <1>2, <1>4 DEF recover_image
<1>5. CASE d.recovery = "Success" /\ d.active # "Success"
  <2>1. \/ o = Untouched("Failure", flash)
        \/ \E st \in {"VerifyActive", "Failure"}, c \in {"good", "bad"}, b \in BOOLEAN :
             o = Outcome(st, flash, Put(flash, "BMC", "active", c), {<<"BMC", "active">>}, b)
    BY <1>5 DEF recover_image
  <2>2. ASSUME NEW st \in {"VerifyActive", "Failure"}, NEW c \in {"good", "bad"}, NEW b \in BOOLEAN,
               o = Outcome(st, flash, Put(flash, "BMC", "active", c), {<<"BMC", "active">>}, b)
        PROVE  o.status \in {"VerifyActive", "Failure"}
    BY <2>2 DEF Outcome
  <2> QED BY <1>2, <2>1, <2>2
<1> QED
  BY <1>3, <1>4, <1>5

\* handleRecoveryAction only starts when the active region makes no claim that
\* an erase could contradict.
LEMMA RecoverBeginH ==
  ASSUME IInv, QInv, HInv, RecoverBegin PROVE HInv'
<1>1. /\ cur = "RECOVERY" /\ pc = "run" /\ pc' = "recover"
      /\ UNCHANGED <<cur, ctx, evq, ao, ev, ufm, prov>>
  BY DEF RecoverBegin
<1>2. ctx.ao = "Bmc" /\ ctx.ev \in {"Bmc0", "Bmc1"} /\ ao["Bmc"].pnc \in {0, 1}
  BY <1>1, Contexts
<1>3. InUse' = InUse /\ Bmc' = Bmc
  BY <1>1 DEF InUse, Bmc
<1>4. AtRest' /\ FirstUpdate' /\ LaterUpdates'
  BY <1>1, <1>3, StillH
<1>5. CASE ~InUse
  BY <1>1, <1>3, <1>4, <1>5, NotInUseH
<1>6. CASE InUse
  <2>1. ev[ctx.ev].image = "BMC"
    BY <1>2, <1>6, ImageNamed
  <2>2. PICK o \in recover_image(Bmc, "BMC") : res' = o /\ flash' = Erased(flash, o)
    <3> DEFINE i == IF ev[ctx.ev].image = "BMC" THEN "BMC" ELSE "PCH"
    <3>1. ao[ctx.ao].pnc # 0 /\ ao[ctx.ao] = Bmc /\ i = "BMC"
      BY <1>2, <1>6, <2>1 DEF InUse, Bmc
    <3>2. \E o \in recover_image(ao[ctx.ao], i) : res' = o /\ flash' = Erased(flash, o)
      BY <3>1 DEF RecoverBegin
    <3> HIDE DEF i
    <3> QED BY <3>1, <3>2
  <2>3. ActiveOK' => ActiveOK
    BY <1>1, <2>2 DEF ActiveOK, Erased, Images, Regions
  <2>4. ~(prov /\ Bmc.active # "Success" /\ ActiveOK)
    BY <1>1, <1>6 DEF HInv, Heard, Inside
  <2>5. Heard'
    BY <1>1, <1>3, <2>3, <2>4 DEF Heard
  <2>6. Refuting' /\ Sparing'
    BY <1>1, <2>2, RecoverSpares DEF Refuting, Sparing, IInv
  <2> QED BY <1>4, <2>5, <2>6 DEF HInv
<1> QED
  BY <1>5, <1>6

\* An event posted to a queue q.
LEMMA PostAddsOne ==
  ASSUME NEW q \in Seq(SmcEvent), NEW e,
         [state |-> "VERIFY", ao |-> "Bmc", ev |-> e] \in SmcEvent
  PROVE  /\ post_smc_action(q, "VERIFY", "Bmc", e) \in Seq(SmcEvent)
         /\ Len(post_smc_action(q, "VERIFY", "Bmc", e)) <= Len(q) + 1
<1> DEFINE x == [state |-> "VERIFY", ao |-> "Bmc", ev |-> e]
<1>1. x \in SmcEvent
  OBVIOUS
<1>2. \/ post_smc_action(q, "VERIFY", "Bmc", e) = Append(q, x)
      \/ post_smc_action(q, "VERIFY", "Bmc", e) = q
  BY Zenon DEF post_smc_action
<1> HIDE DEF x
<1>3. /\ Append(q, x) \in Seq(SmcEvent) /\ Len(Append(q, x)) = Len(q) + 1
      /\ Len(q) \in Nat
  BY <1>1
<1>4. Len(q) <= Len(q) + 1 /\ Len(q) + 1 <= Len(q) + 1
  BY <1>3
<1> QED BY <1>2, <1>3, <1>4, Zenon

\* handlePostRecoverySuccess posts at most two events.
LEMMA RecoverPosts ==
  ASSUME IInv, QInv, RecoverSucceeds
  PROVE  evq' \in Seq(SmcEvent) /\ Len(evq') <= Len(evq) + 2
<1>1. cur = "RECOVERY"
  BY DEF RecoverSucceeds, IInv, Handling
<1>2. ctx.ao = "Bmc" /\ ctx.ev \in {"Bmc0", "Bmc1"} /\ evq \in Seq(SmcEvent)
  BY <1>1, Contexts
<1>3. [state |-> "VERIFY", ao |-> "Bmc", ev |-> ctx.ev] \in SmcEvent
  BY <1>2 DEF SmcEvent, Events, AOs, Evs
<1>4. PICK once : /\ once = evq \/ once = post_smc_action(evq, "VERIFY", "Bmc", ctx.ev)
                  /\ evq' = post_smc_action(once, "VERIFY", "Bmc", ctx.ev)
  BY <1>2 DEF RecoverSucceeds
<1>5. once \in Seq(SmcEvent) /\ Len(once) <= Len(evq) + 1
  <2>1. CASE once = evq
    BY <1>2, <2>1
  <2>2. CASE once = post_smc_action(evq, "VERIFY", "Bmc", ctx.ev)
    BY <1>2, <1>3, <2>2, PostAddsOne, Zenon
  <2> QED BY <1>4, <2>1, <2>2
<1>6. evq' \in Seq(SmcEvent) /\ Len(evq') <= Len(once) + 1
  BY <1>3, <1>4, <1>5, PostAddsOne, Zenon
<1> QED
  BY <1>2, <1>5, <1>6

\* handlePostRecoverySuccess: a restored active region is marked Success, and
\* a restored recovery region says nothing new about the active one.
LEMMA RecoverSucceedsH ==
  ASSUME IInv, QInv, HInv, RecoverSucceeds PROVE HInv'
<1>1. /\ cur = "RECOVERY" /\ pc = "recover" /\ pc' = "parent" /\ UNCHANGED <<cur, ctx, ufm, prov>>
      /\ flash' = Written(flash, res) /\ res.status # "Failure"
  BY DEF RecoverSucceeds, IInv, Handling
<1>2. ctx.ao = "Bmc" /\ "Bmc" \in AOs /\ ao["Bmc"] \in AoData /\ evq \in Seq(SmcEvent)
  BY <1>1, Contexts, Objects DEF IInv
<1>3. /\ Bmc'.pnc = Bmc.pnc /\ ao'["I2c"] = ao["I2c"] /\ ao'["Update"] = ao["Update"]
      /\ Bmc'.active = IF res.status = "VerifyActive" THEN "Success" ELSE Bmc.active
  <2> DEFINE x == [ao["Bmc"] EXCEPT !.prev = "Recovery",
                     !.active = IF res.status = "VerifyActive" THEN "Success" ELSE @,
                     !.recovery = IF res.status = "VerifyRecovery" THEN "Success" ELSE @]
  <2>1. /\ x \in AoData /\ x.pnc = ao["Bmc"].pnc
        /\ x.active = IF res.status = "VerifyActive" THEN "Success" ELSE ao["Bmc"].active
    BY <1>2 DEF AoData, Status
  <2>2. ao' = [ao EXCEPT !["Bmc"] = x]
    BY <1>2 DEF RecoverSucceeds
  <2> HIDE DEF x
  <2> QED BY <1>2, <2>1, <2>2, AoStore DEF IInv, AOs, Bmc
<1>4. InUse' = InUse
  BY <1>3 DEF InUse, Bmc
<1>5. AtRest'
  <2>1. Len(evq') <= Len(evq) + 2 /\ Len(evq) \in Nat /\ Len(evq') \in Nat
    BY <1>2, RecoverPosts
  <2>2. prov /\ ao["I2c"].pnc = 1 => ~InUse /\ ao["Update"].pnc = 0 /\ Len(evq) <= 1
    BY <1>1 DEF HInv, AtRest, Inside
  <2>3. prov /\ ao["I2c"].pnc = 1 => Len(evq') <= 3
    BY <2>1, <2>2
  <2> QED BY <1>1, <1>3, <1>4, <2>2, <2>3 DEF AtRest, Inside
<1>6. FirstUpdate' /\ LaterUpdates'
  BY <1>1, <1>3 DEF HInv, FirstUpdate, LaterUpdates
<1>7. CASE ~InUse
  BY <1>1, <1>4, <1>5, <1>6, <1>7, NotInUseH
<1>8. CASE InUse
  <2>1. Heard'
    <3>1. CASE res.status = "VerifyActive"
      BY <1>3, <3>1 DEF Heard
    <3>2. CASE res.status # "VerifyActive"
      <4>1. res.status \in {"VerifyRecovery", "Success"}
        BY <1>1, <3>2 DEF IInv, TypeOK, Operation
      <4>2. <<"BMC", "active">> \notin res.writes
        BY <1>1, <1>8, <4>1 DEF HInv, Sparing
      <4>3. ActiveOK' = ActiveOK
        BY <1>1, <4>2, TouchesWrites DEF ActiveOK, Regions
      <4>4. ~(prov /\ Bmc.active # "Success" /\ ActiveOK)
        BY <1>1, <1>8 DEF HInv, Heard, Inside
      <4> QED BY <1>1, <1>3, <3>2, <4>3, <4>4 DEF Heard
    <3> QED BY <3>1, <3>2
  <2>2. Refuting' /\ Sparing'
    BY <1>1 DEF Refuting, Sparing
  <2> QED BY <1>5, <1>6, <2>1, <2>2 DEF HInv
<1> QED
  BY <1>7, <1>8

\* handlePostRecoveryFailure leaves the object done with, or both regions are
\* marked Success.
LEMMA RecoverFailsH ==
  ASSUME IInv, QInv, HInv, RecoverFails PROVE HInv'
<1>1. /\ cur = "RECOVERY" /\ pc = "recover" /\ res.status = "Failure"
      /\ UNCHANGED prov /\ pc' \in {"run", "parent"} /\ cur' \in {"RECOVERY", "LOCKDOWN"}
  BY DEF RecoverFails, IInv, Handling
<1>2. ctx.ao = "Bmc" /\ "Bmc" \in AOs /\ ao["Bmc"] \in AoData
  BY <1>1, Contexts, Objects DEF IInv
<1>3. InUse
  BY <1>1 DEF QInv, Recovering
<1> DEFINE locked == [ao["Bmc"] EXCEPT !.lockdown = 1, !.pnc = 0]
           freed == [ao["Bmc"] EXCEPT !.pnc = 0]
<1>4. locked \in AoData /\ freed \in AoData /\ locked.pnc = 0 /\ freed.pnc = 0
  BY <1>2 DEF AoData
<1>5. \/ \E x \in {locked, freed} : ao' = [ao EXCEPT !["Bmc"] = x]
      \/ Bmc.active = "Success" /\ ao' = ao
  BY <1>2 DEF RecoverFails, Bmc
<1> HIDE DEF locked, freed
<1>6. prov => ao["I2c"].pnc # 1 /\ ao["Update"].pnc # 1
  BY <1>3 DEF HInv, AtRest, FirstUpdate
<1>7. ao'["I2c"] = ao["I2c"] /\ ao'["Update"] = ao["Update"]
  BY <1>2, <1>4, <1>5, AoStore DEF IInv, AOs
<1>8. AtRest' /\ FirstUpdate' /\ LaterUpdates'
  BY <1>1, <1>6, <1>7 DEF AtRest, FirstUpdate, LaterUpdates
<1>9. CASE \E x \in {locked, freed} : ao' = [ao EXCEPT !["Bmc"] = x]
  <2>1. ~InUse'
    BY <1>2, <1>4, <1>9, AoStore DEF IInv, InUse
  <2> QED BY <1>1, <1>8, <2>1, NotInUseH
<1>10. CASE Bmc.active = "Success" /\ ao' = ao
  <2>1. Heard' /\ Refuting' /\ Sparing'
    BY <1>1, <1>10 DEF Heard, Refuting, Sparing, Bmc
  <2> QED BY <1>8, <2>1 DEF HInv
<1> QED
  BY <1>5, <1>9, <1>10

\* handle_update_image_action.
LEMMA UpdateBeginH ==
  ASSUME IInv, QInv, HInv, UpdateBegin PROVE HInv'
<1>1. cur = "UPDATE" /\ pc' = "update" /\ UNCHANGED <<cur, evq, ao, prov>>
  BY DEF UpdateBegin
<1>2. AtRest' /\ FirstUpdate' /\ LaterUpdates'
  BY <1>1, StillH DEF InUse
<1>3. Heard' /\ Refuting' /\ Sparing'
  BY <1>1 DEF Heard, Refuting, Sparing, Inside
<1> QED
  BY <1>2, <1>3 DEF HInv

\* The end of an update.
LEMMA UpdateEndH ==
  ASSUME IInv, QInv, HInv, UpdateEnd PROVE HInv'
<1>1. cur = "UPDATE" /\ pc' = "publish" /\ UNCHANGED <<cur, evq, prov>>
  BY DEF UpdateEnd, IInv, Handling
<1>2. ctx.ao = "Update" /\ "Update" \in AOs /\ ao["Update"] \in AoData /\ ao["Update"].pnc \in {0, 1}
  BY <1>1, Contexts, Objects DEF IInv
<1>3. ao'["I2c"] = ao["I2c"] /\ ao'["Update"].pnc = 0
  <2> DEFINE d == [ao["Update"] EXCEPT !.pnc = 0]
  <2>1. d \in AoData /\ d.pnc = 0
    BY <1>2 DEF AoData
  <2>2. ao' = [ao EXCEPT !["Update"] = d]
    BY <1>2 DEF UpdateEnd
  <2> HIDE DEF d
  <2> QED BY <1>2, <2>1, <2>2, AoStore DEF IInv, AOs
<1>4. prov => ~Waits(evq, "RECOVERY") /\ (Len(evq) <= 4 \/ Published(evq))
  BY <1>1, <1>2 DEF HInv, FirstUpdate, LaterUpdates
<1>5. LaterUpdates' /\ FirstUpdate'
  <2>1. prov => ~Waits(evq', "RECOVERY") /\ (Len(evq') <= 4 \/ Published(evq'))
    BY <1>1, <1>4
  <2> QED BY <1>1, <1>3, <2>1 DEF LaterUpdates, FirstUpdate
<1>6. AtRest'
  BY <1>1, <1>3 DEF HInv, AtRest
<1>7. Heard' /\ Refuting' /\ Sparing'
  BY <1>1 DEF Heard, Refuting, Sparing, Inside
<1> QED
  BY <1>5, <1>6, <1>7 DEF HInv

\* A platform that is not provisioned makes no claim.
LEMMA UnprovisionedH ==
  ASSUME ~prov', pc' \in {"run", "parent"} PROVE HInv'
  BY DEF HInv, Heard, Refuting, Sparing, AtRest, FirstUpdate, LaterUpdates

\* Publishing the initial events again: they find room, or wait already.
LEMMA UpdatePublishH ==
  ASSUME IInv, QInv, HInv, QMax >= 6, UpdatePublish PROVE HInv'
<1>1. cur = "UPDATE" /\ pc = "publish" /\ pc' = "parent" /\ UNCHANGED <<cur, prov>>
      /\ PublishInitialEvents(evq) /\ evq \in Seq(SmcEvent)
  BY Contexts DEF UpdatePublish, IInv, Handling
<1>2. CASE ~prov
  BY <1>1, <1>2, UnprovisionedH
<1>3. CASE prov
  <2>1. ao["Update"].pnc = 0
    BY <1>1 DEF QInv, Updating
  <2>2. ~Waits(evq, "RECOVERY") /\ (Len(evq) <= 4 \/ Published(evq))
    BY <1>1, <1>3, <2>1 DEF HInv, LaterUpdates
  <2>3. Published(evq') /\ "Bmc1" \in ActiveEvs'
    BY <1>1, <1>3, <2>2, PublishH
  <2>4. Coming(evq', ActiveEvs')
    BY <2>3, PublishedComing
  <2>5. ao'["I2c"] = ao["I2c"] /\ ao'["Update"] = ao["Update"]
    BY <1>1, PublishOrder
  <2>6. Heard' /\ Refuting' /\ Sparing'
    BY <1>1, <2>4 DEF Heard, Refuting, Sparing, Inside
  <2>7. AtRest' /\ FirstUpdate'
    BY <1>1, <2>1, <2>5 DEF HInv, AtRest, FirstUpdate
  <2>8. LaterUpdates'
    BY <2>3 DEF LaterUpdates, Published
  <2> QED BY <2>6, <2>7, <2>8 DEF HInv
<1> QED
  BY <1>2, <1>3

\* The INITIALIZE event.
LEMMA IdleInitializeH ==
  ASSUME IInv, QInv, HInv, QMax >= 6, IdleInitialize PROVE HInv'
<1>1. Booting
  <2>1. ASSUME Running PROVE FALSE
    <3>1. evq \in Seq(Matched) /\ evq # <<>>
      BY <2>1 DEF Running, IdleInitialize
    <3>2. Head(evq) \in Matched
      BY <3>1
    <3>3. Head(evq).state = "INITIALIZE"
      BY DEF IdleInitialize
    <3> QED BY <3>2, <3>3 DEF Matched
  <2> QED BY <2>1 DEF IInv
<1>2. /\ cur = "IDLE" /\ pc' = "run" /\ UNCHANGED <<cur, prov>>
      /\ Tail(evq) = <<>> /\ PublishInitialEvents(<<>>)
  BY <1>1 DEF Booting, IdleInitialize
<1>3. CASE ~prov
  BY <1>2, <1>3, UnprovisionedH
<1>4. CASE prov
  <2>1. PICK q : q = <<>>
    OBVIOUS
  <2>2. q \in Seq(SmcEvent) /\ PublishInitialEvents(q) /\ Len(q) = 0 /\ ~Waits(q, "RECOVERY")
    BY <1>2, <2>1, ShortQueue
  <2>3. Len(q) <= 4
    BY <2>2
  <2>4. Published(evq') /\ "Bmc1" \in ActiveEvs'
    BY <1>4, <2>2, <2>3, PublishH
  <2>5. Coming(evq', ActiveEvs')
    BY <2>4, PublishedComing
  <2>6. ao'["I2c"] = ao["I2c"] /\ ao'["Update"] = ao["Update"]
    BY <2>2, PublishOrder
  <2>7. ao["I2c"].pnc # 1
    BY <1>1 DEF QInv, Commanded, Booting, InitialEvent
  <2>8. ao["Update"].pnc # 1
    BY <1>2, <1>4 DEF HInv, FirstUpdate
  <2>9. Heard' /\ Refuting' /\ Sparing'
    BY <1>2, <2>5 DEF Heard, Refuting, Sparing, Inside
  <2>10. AtRest' /\ FirstUpdate' /\ LaterUpdates'
    BY <1>2, <2>6, <2>7, <2>8 DEF AtRest, FirstUpdate, LaterUpdates
  <2> QED BY <2>9, <2>10 DEF HInv
<1> QED
  BY <1>3, <1>4

\* run_idle with nothing to dispatch: an intact active region that is not
\* marked Success would have a verification in the queue.
LEMMA IdleEmptyH ==
  ASSUME IInv, QInv, HInv, IdleEmpty PROVE HInv'
<1>1. /\ evq = <<>> /\ pc' = "run" /\ UNCHANGED <<cur, ctx, evq, ao, ev, ufm, flash, prov>>
      /\ ~Inside("UPDATE") /\ ~Inside("VERIFY")
  BY DEF IdleEmpty, AtIdle, Inside
<1>2. ao["I2c"].pnc # 1
  BY <1>1 DEF QInv, Commanded, IdleEmpty, AtIdle
<1>3. Len(evq) = 0 /\ 1..0 = {}
  BY <1>1, ShortQueue
<1>4. ~Coming(evq, ActiveEvs)
  BY <1>3 DEF Coming
<1>5. ~(prov /\ InUse /\ Bmc.active # "Success" /\ ActiveOK)
  BY <1>1, <1>4 DEF HInv, Heard
<1>6. Bmc' = Bmc /\ InUse' = InUse /\ ActiveOK' = ActiveOK
  BY <1>1 DEF Bmc, InUse, ActiveOK
<1>7. Heard' /\ Refuting' /\ Sparing' /\ AtRest'
  BY <1>1, <1>2, <1>5, <1>6 DEF Heard, Refuting, Sparing, AtRest
<1>8. FirstUpdate' /\ LaterUpdates'
  BY <1>1, <1>6 DEF HInv, FirstUpdate, LaterUpdates, Waits, Published
<1> QED
  BY <1>7, <1>8 DEF HInv

\* run_idle dispatches the first event: a verification of the active region
\* that waits before the recoveries still does, or is the one that runs.
LEMMA IdleDispatchH ==
  ASSUME IInv, QInv, HInv, IdleDispatch PROVE HInv'
<1> DEFINE h == Head(evq).state
           r == Tail(evq)
<1>1. /\ evq \in Seq(SmcEvent) /\ evq # <<>> /\ h # "INITIALIZE"
      /\ pc' = "run" /\ cur' = h /\ ctx'.ev = Head(evq).ev /\ evq' = r
      /\ UNCHANGED <<ao, ev, ufm, flash, prov>>
      /\ ~Inside("UPDATE") /\ ~Inside("VERIFY")
  BY Contexts DEF IdleDispatch, AtIdle, Inside
<1>2. /\ Len(r) = Len(evq) - 1 /\ Head(evq) \in SmcEvent
      /\ \A s : Waits(r, s) => Waits(evq, s)
      /\ Waits(evq, h)
  BY <1>1, TailOrder
<1>3. /\ Coming(evq, ActiveEvs) => /\ h # "RECOVERY"
                                   /\ (h = "VERIFY" /\ Head(evq).ev \in ActiveEvs) \/ Coming(r, ActiveEvs)
      /\ Published(evq) /\ h # "VERIFY" => Published(r)
  BY <1>1, TailComing
<1>4. ao["I2c"].pnc = 1 => h = "I2C"
  BY <1>1 DEF QInv, Commanded, IdleDispatch, AtIdle
<1>5. h # "IDLE" /\ Len(evq) \in Nat
  BY <1>1, <1>2 DEF SmcEvent, Events
<1>6. ao["Update"].pnc = 0 /\ h = "UPDATE" => cur = "UPDATE"
  BY <1>2 DEF QInv, Updating
<1> HIDE DEF h, r
<1>7. /\ Bmc' = Bmc /\ InUse' = InUse /\ ActiveOK' = ActiveOK /\ ActiveEvs' = ActiveEvs
  BY <1>1 DEF Bmc, InUse, ActiveOK, ActiveEvs
<1>8. Heard'
  <2>1. prov /\ InUse /\ Bmc.active # "Success" /\ ActiveOK => Coming(evq, ActiveEvs)
    BY <1>1 DEF HInv, Heard
  <2> QED BY <1>1, <1>3, <1>7, <2>1 DEF Heard, Inside
<1>9. Refuting' /\ Sparing'
  BY <1>1 DEF Refuting, Sparing
<1>10. AtRest'
  <2>1. prov /\ ao["I2c"].pnc = 1 => ~InUse /\ ao["Update"].pnc = 0 /\ Len(r) <= 2
    BY <1>2, <1>5 DEF HInv, AtRest
  <2>2. Len(r) <= 2 => Len(r) <= 3
    BY <1>2, <1>5
  <2> QED BY <1>1, <1>4, <1>7, <2>1, <2>2 DEF AtRest, Inside
<1>11. FirstUpdate'
  <2>1. prov /\ ao["Update"].pnc = 1 =>
          ~InUse /\ ~Waits(r, "RECOVERY") /\ h \notin {"IDLE", "RECOVERY"} /\ Len(r) <= 4
    BY <1>2, <1>5 DEF HInv, FirstUpdate
  <2>2. Len(r) <= 4 => Len(r) <= 5
    BY <1>2, <1>5
  <2> QED BY <1>1, <1>7, <2>1, <2>2 DEF FirstUpdate
<1>12. LaterUpdates'
  <2>1. prov /\ h = "UPDATE" /\ ao["Update"].pnc = 0 =>
          ~Waits(r, "RECOVERY") /\ (Len(evq) <= 4 \/ Published(r))
    BY <1>2, <1>3, <1>6 DEF HInv, LaterUpdates
  <2>2. Len(evq) <= 4 => Len(r) <= 4
    BY <1>2, <1>5
  <2> QED BY <1>1, <2>1, <2>2 DEF LaterUpdates
<1> QED
  BY <1>8, <1>9, <1>10, <1>11, <1>12 DEF HInv

\* PublishUpdateEvent posts at most as many events as it is called for.
LEMMA UpdatesLength ==
  ASSUME NEW q \in Seq(SmcEvent), NEW n \in Nat
  PROVE  Len(PublishUpdateEvents(q, n)) <= Len(q) + n /\ Len(PublishUpdateEvents(q, n)) \in Nat
<1> DEFINE room == IF Len(q) < QMax THEN QMax - Len(q) ELSE 0
           m == IF n < room THEN n ELSE room
           u == [state |-> "UPDATE", ao |-> "Update", ev |-> "Update"]
           added == [k \in 1..m |-> u]
<1>1. m \in Nat /\ m <= n /\ Len(q) \in Nat
  BY BoundsAssumption
<1>2. PublishUpdateEvents(q, n) = q \o added
  BY DEF PublishUpdateEvents
<1>3. u \in SmcEvent
  BY DEF SmcEvent, Events, AOs, Evs
<1> HIDE DEF m, u
<1>4. added \in Seq(SmcEvent) /\ Len(added) = m
  BY <1>1, <1>3
<1> HIDE DEF added
<1>5. Len(q \o added) = Len(q) + m
  BY <1>4
<1> QED
  BY <1>1, <1>2, <1>5

\* process_i2c_command: the updates of a command that found the object not in
\* use leave room for the initial events.
LEMMA RunI2cH ==
  ASSUME IInv, QInv, HInv, RunI2c PROVE HInv'
<1>1. /\ cur = "I2C" /\ pc = "run" /\ pc' = "parent" /\ UNCHANGED <<cur, ctx, flash>>
      /\ ctx.ao = "I2c" /\ ao["I2c"].pnc \in {0, 1} /\ evq \in Seq(SmcEvent)
  BY Contexts DEF RunI2c
<1>2. CASE ao["I2c"].pnc = 0
  <2>1. UNCHANGED <<ao, ev, evq, ufm, prov>>
    BY <1>1, <1>2 DEF RunI2c
  <2>2. Bmc' = Bmc /\ InUse' = InUse /\ ActiveOK' = ActiveOK /\ ActiveEvs' = ActiveEvs
    BY <1>1, <2>1 DEF Bmc, InUse, ActiveOK, ActiveEvs
  <2>3. AtRest' /\ FirstUpdate' /\ LaterUpdates'
    BY <1>1, <2>1, <2>2, StillH
  <2>4. Heard' /\ Refuting' /\ Sparing'
    BY <1>1, <2>1, <2>2 DEF HInv, Heard, Refuting, Sparing, Inside
  <2> QED BY <2>3, <2>4 DEF HInv
<1>3. CASE ao["I2c"].pnc = 1 /\ ~prov'
  BY <1>1, <1>3, UnprovisionedH
<1>4. CASE ao["I2c"].pnc = 1 /\ prov'
  <2>1. prov
    BY <1>1, <1>4 DEF RunI2c
  <2>2. ~InUse /\ ao["Update"].pnc = 0 /\ Len(evq) <= 2 /\ Len(evq) \in Nat /\ ~Waits(evq, "RECOVERY")
    BY <1>1, <1>4, <2>1 DEF HInv, AtRest, QInv, Commanded
  <2> DEFINE served == /\ ao'["Bmc"] = ao["Bmc"] /\ ao'["I2c"].pnc = 0
                       /\ ao'["Update"].pnc = 1 => ~Waits(evq', "RECOVERY") /\ Len(evq') <= 5
  <2>3. served
    <3>1. CASE ao' = [ao EXCEPT !["I2c"].pnc = 0] /\ UNCHANGED evq
      <4> DEFINE d == [ao["I2c"] EXCEPT !.pnc = 0]
      <4>1. "I2c" \in AOs /\ ao["I2c"] \in AoData
        BY Objects DEF IInv, AOs
      <4>2. d \in AoData /\ d.pnc = 0
        BY <4>1 DEF AoData
      <4>3. ao' = [ao EXCEPT !["I2c"] = d]
        BY <3>1
      <4> HIDE DEF d
      <4>4. ao'["Bmc"] = ao["Bmc"] /\ ao'["I2c"].pnc = 0 /\ ao'["Update"] = ao["Update"]
        BY <4>1, <4>2, <4>3, AoStore DEF IInv, AOs
      <4> QED BY <2>2, <4>4
    <3>2. CASE UpdateIntentHandle(cmd.bits, cmd.source)
      <4>1. /\ \A s : Waits(evq', s) => Waits(evq, s) \/ (s = "UPDATE" /\ ao'["Update"].pnc = 1)
            /\ ao'["Bmc"] = ao["Bmc"] /\ ao'["I2c"].pnc = 0
        BY <3>2, IntentOrder
      <4>2. PICK n \in 0..3 : evq' = PublishUpdateEvents(evq, n)
        BY <3>2, ThreeUpdates DEF UpdateIntentHandle
      <4>3. n \in Nat /\ n <= 3
        BY <4>2
      <4>4. Len(evq') <= Len(evq) + n /\ Len(evq') \in Nat
        BY <1>1, <4>2, <4>3, UpdatesLength
      <4>5. Len(evq') <= 5
        BY <2>2, <4>3, <4>4
      <4> QED BY <2>2, <4>1, <4>5
    <3>3. ao[ctx.ao].pnc = 1
      BY <1>1, <1>4
    <3> HIDE DEF served
    <3> QED BY <3>1, <3>2, <3>3 DEF RunI2c
  <2>4. ~InUse'
    BY <2>2, <2>3 DEF InUse
  <2>5. AtRest' /\ FirstUpdate' /\ LaterUpdates'
    BY <1>1, <2>3, <2>4 DEF AtRest, FirstUpdate, LaterUpdates
  <2> QED BY <1>1, <2>4, <2>5, NotInUseH
<1> QED
  BY <1>1, <1>2, <1>3, <1>4

\* A step that moves neither the main thread nor the queue, and makes no region
\* intact, preserves the invariant.
LEMMA QuietH ==
  ASSUME HInv, UNCHANGED <<cur, ctx, pc, res, evq, ev, prov>>,
         \A a \in AOs : ao'[a].pnc = ao[a].pnc, Bmc'.active = Bmc.active, ActiveOK' => ActiveOK
  PROVE  HInv'
<1>1. InUse' = InUse /\ ao'["I2c"].pnc = ao["I2c"].pnc /\ ao'["Update"].pnc = ao["Update"].pnc
  BY DEF InUse, AOs
<1>2. AtRest' /\ FirstUpdate' /\ LaterUpdates'
  BY <1>1, StillH
<1>3. ActiveEvs' = ActiveEvs
  BY DEF ActiveEvs
<1>4. Heard'
  BY <1>1, <1>3 DEF HInv, Heard, Inside
<1>5. Refuting' /\ Sparing'
  BY <1>1, <1>3 DEF HInv, Refuting, Sparing
<1> QED
  BY <1>2, <1>4, <1>5 DEF HInv

\* run_lockdown.
LEMMA RunLockdownH ==
  ASSUME IInv, HInv, RunLockdown PROVE HInv'
<1>1. UNCHANGED <<cur, ctx, pc, res, evq, ev, prov, ufm, flash>>
  BY DEF RunLockdown
<1>2. \A a \in AOs : ao'[a].pnc = ao[a].pnc /\ ao'[a].active = ao[a].active
  <2>1. ao \in [AOs -> AoData] /\ ao' = [ao EXCEPT ![ctx.ao] = [@ EXCEPT !.lockdown = 1]]
    BY DEF RunLockdown, IInv, TypeOK
  <2>2. ASSUME NEW d \in AoData, NEW x, x = [d EXCEPT !.lockdown = 1]
        PROVE  x.pnc = d.pnc /\ x.active = d.active
    BY <2>2 DEF AoData
  <2> QED BY <2>1, <2>2
<1>3. Bmc'.active = Bmc.active /\ ActiveOK' = ActiveOK
  BY <1>1, <1>2 DEF Bmc, ActiveOK, AOs
<1> QED
  BY <1>1, <1>2, <1>3, QuietH

\* Damage makes no region intact.
LEMMA CorruptH ==
  ASSUME IInv, HInv, NEW i \in Images, NEW r \in Regions, Corrupt(i, r) PROVE HInv'
<1>1. UNCHANGED <<cur, ctx, pc, res, evq, ao, ev, prov, ufm>>
  BY DEF Corrupt
<1>2. ActiveOK' => ActiveOK
  <2>1. flash \in Flash /\ flash' = [flash EXCEPT ![i][r] = "bad"]
    BY DEF Corrupt, IInv, TypeOK
  <2>2. flash'["BMC"]["active"] = "good" => flash["BMC"]["active"] = "good"
    BY <2>1 DEF Flash, Images, Regions
  <2> QED BY <1>1, <2>2 DEF ActiveOK
<1> QED
  BY <1>1, <1>2, QuietH DEF Bmc

\* A mailbox write comes from a BMC whose object is not in use, with no event
\* waiting and no update to make.
LEMMA I2cWriteH ==
  ASSUME IInv, QInv, HInv, NEW c \in Commands, I2cWrite(c),
         left'.cmd < left.cmd => evq = <<>> /\ ao["Update"].pnc = 0
  PROVE  HInv'
<1>1. /\ left'.cmd < left.cmd /\ bmc = "released"
      /\ UNCHANGED <<cur, ctx, pc, res, ufm, flash, prov>>
  BY DEF I2cWrite, IInv, TypeOK
<1>2. evq = <<>> /\ ao["Update"].pnc = 0
  BY <1>1
<1>3. ao'["Bmc"] = ao["Bmc"] /\ ao'["Update"] = ao["Update"]
  <2> DEFINE d == [ao["I2c"] EXCEPT !.pnc = 1, !.type = "I2C"]
  <2>1. "I2c" \in AOs /\ ao["I2c"] \in AoData
    BY Objects DEF IInv, AOs
  <2>2. d \in AoData
    BY <2>1 DEF AoData
  <2>3. ao' = [ao EXCEPT !["I2c"] = d]
    BY DEF I2cWrite
  <2> HIDE DEF d
  <2> QED BY <2>1, <2>2, <2>3, AoStore DEF IInv, AOs
<1>4. ~InUse /\ ~InUse'
  BY <1>1, <1>3 DEF QInv, HeldInUse, InUse
<1>5. Len(evq') = 1
  <2>1. evq' = Append(<<>>, [state |-> "I2C", ao |-> "I2c", ev |-> "I2c"])
    BY <1>2, ShortQueue, BoundsAssumption DEF I2cWrite, post_smc_action
  <2> QED BY <2>1
<1>6. prov => cur # "UPDATE"
  BY <1>1, <1>2 DEF QInv, Updating
<1>7. AtRest' /\ FirstUpdate' /\ LaterUpdates'
  BY <1>1, <1>2, <1>3, <1>4, <1>5, <1>6 DEF AtRest, FirstUpdate, LaterUpdates
<1>8. ActiveOK' = ActiveOK
  BY <1>1 DEF ActiveOK
<1>9. pc = "auth" => (ctx.ev \in ActiveEvs' => ctx.ev \in ActiveEvs)
  <2>1. ev \in [Evs -> EventContext] /\ \E x : ev' = [ev EXCEPT !["I2c"] = x]
    BY DEF I2cWrite, IInv, TypeOK
  <2>2. pc = "auth" => ctx.ev \in {"Bmc0", "Bmc1"}
    BY Contexts DEF IInv, Handling
  <2>3. ctx.ev \in {"Bmc0", "Bmc1"} => ev'[ctx.ev] = ev[ctx.ev]
    BY <2>1 DEF Evs
  <2> QED BY <2>2, <2>3 DEF ActiveEvs
<1>10. Heard' /\ Refuting' /\ Sparing'
  BY <1>1, <1>4, <1>8, <1>9 DEF HInv, Heard, Refuting, Sparing
<1> QED
  BY <1>7, <1>10 DEF HInv

\* A restart.
LEMMA RebootH ==
  ASSUME Reboot PROVE HInv'
<1>1. cur' = "IDLE" /\ pc' = "run"
  BY DEF Reboot
<1>2. ao'["Bmc"].pnc = 0 /\ ao'["I2c"].pnc = 0 /\ ao'["Update"].pnc = 0
  BY DEF Reboot, BlankAO, AOs
<1> QED
  BY <1>1, <1>2 DEF HInv, Heard, Refuting, Sparing, AtRest, FirstUpdate, LaterUpdates, InUse

\* The start.
LEMMA InitH ==
  ASSUME Init PROVE HInv
<1>1. cur = "IDLE" /\ pc = "run"
  BY DEF Init, Boot
<1>2. ao["Bmc"].pnc = 0 /\ ao["I2c"].pnc = 0 /\ ao["Update"].pnc = 0
  BY DEF Init, Boot, BlankAO, AOs
<1> QED
  BY <1>1, <1>2 DEF HInv, Heard, Refuting, Sparing, AtRest, FirstUpdate, LaterUpdates, InUse

\* One step of Next in which a command comes at rest preserves HInv.
LEMMA NextH ==
  ASSUME IInv, QInv, HInv, QMax >= 6, [Next]_vars,
         [left'.cmd < left.cmd => evq = <<>> /\ ao["Update"].pnc = 0]_vars
  PROVE  HInv'
<1>1. CASE UNCHANGED vars
  <2>1. Bmc' = Bmc /\ ActiveOK' = ActiveOK
    BY <1>1 DEF Bmc, ActiveOK, vars
  <2> QED BY <1>1, <2>1, QuietH DEF vars
<1>2. CASE MainThread
  <2>1. ASSUME UpdateReboot PROVE HInv'
    BY <2>1, RebootH DEF UpdateReboot
  <2> QED
    BY <1>2, <2>1, IdleEmptyH, IdleInitializeH, IdleDispatchH, VerifyBeginH, VerifySucceedsH,
       VerifyFailsH, RecoverBeginH, RecoverSucceedsH, RecoverFailsH, UpdateBeginH, UpdateEndH,
       UpdatePublishH, RunI2cH, RunLockdownH DEF MainThread
<1>3. CASE Interrupt
  <2>1. left.bmcReset = 0 /\ left.timeout = 0
    BY DEF QInv, NoInterrupts
  <2>2. PICK c \in Commands : I2cWrite(c)
    BY <1>3, <2>1 DEF Interrupt, BmcReset, WdtTimeout
  <2>3. CASE UNCHANGED vars
    BY <1>1, <2>3
  <2>4. CASE left'.cmd < left.cmd => evq = <<>> /\ ao["Update"].pnc = 0
    BY <2>2, <2>4, I2cWriteH
  <2> QED BY <2>3, <2>4
<1>4. CASE Environment
  <2>1. ASSUME Reset PROVE HInv'
    BY <2>1, RebootH DEF Reset
  <2> QED BY <1>4, <2>1, CorruptH DEF Environment
<1> QED
  BY <1>1, <1>2, <1>3, <1>4 DEF Next

\* The step that locks a provisioned BMC down found its active region bad: only
\* handlePostRecoveryFailure takes it, inside a recovery.
LEMMA LockStep ==
  ASSUME IInv, QInv, HInv, Next, cur # "LOCKDOWN", cur' = "LOCKDOWN", prov
  PROVE  ~ActiveOK
<1>1. CASE RecoverFails
  <2>1. cur = "RECOVERY" /\ pc = "recover" /\ res.status = "Failure"
    BY <1>1 DEF RecoverFails, IInv, Handling
  <2>2. ctx.ao = "Bmc"
    BY <2>1, Contexts
  <2>3. InUse
    BY <2>1 DEF QInv, Recovering
  <2>4. Bmc.active # "Success"
    BY <1>1, <2>1, <2>2 DEF RecoverFails, Bmc
  <2> QED BY <2>1, <2>3, <2>4 DEF HInv, Heard, Inside
<1>2. CASE IdleDispatch
  <2>1. evq \in Seq(SmcEvent) /\ evq # <<>> /\ cur' = Head(evq).state
    BY <1>2, Contexts DEF IdleDispatch
  <2>2. Head(evq) \in SmcEvent
    BY <2>1
  <2> QED BY <2>1, <2>2 DEF SmcEvent, Events
<1>3. CASE MainThread
  <2>1. ~IdleEmpty /\ ~IdleInitialize /\ ~VerifyBegin /\ ~VerifySucceeds /\ ~VerifyFails
    BY DEF IdleEmpty, IdleInitialize, VerifyBegin, VerifySucceeds, VerifyFails
  <2>2. ~RecoverBegin /\ ~RecoverSucceeds /\ ~UpdateBegin /\ ~UpdateEnd /\ ~UpdatePublish
    BY DEF RecoverBegin, RecoverSucceeds, UpdateBegin, UpdateEnd, UpdatePublish
  <2>3. ~UpdateReboot /\ ~RunI2c /\ ~RunLockdown
    BY DEF UpdateReboot, Reboot, RunI2c, RunLockdown
  <2> QED BY <1>1, <1>2, <1>3, <2>1, <2>2, <2>3 DEF MainThread
<1>4. ~Interrupt
  BY DEF Interrupt, BmcReset, WdtTimeout, I2cWrite
<1>5. ~Environment
  BY DEF Environment, Reset, Reboot, Corrupt
<1> QED
  BY <1>3, <1>4, <1>5 DEF Next

\* A provisioned BMC is locked down only when its active region does not
\* authenticate, for any number of commands, faulty writes, corruptions and
\* resets, when no watchdog expires, the BMC does not reset itself, the heap
\* holds six events and commands come at rest: the Failure that
\* PublishBmcEvents writes before anything is verified is never taken for one.
THEOREM LockdownsAreNeeded ==
  ASSUME MaxBmcReset = 0, MaxTimeout = 0, QMax >= 6
  PROVE  Spec /\ CommandsAtRest => LocksBrokenBmc
<1> DEFINE A == cur # "LOCKDOWN" /\ cur' = "LOCKDOWN" /\ prov => BmcImage = "bad"
           B == left'.cmd < left.cmd => evq = <<>> /\ ao["Update"].pnc = 0
           C == left'.cmd < left.cmd => evq = <<>>
<1>1. Init => HInv
  BY InitH
<1>2. IInv /\ QInv /\ HInv /\ [Next]_vars /\ [B]_vars => HInv'
  BY NextH
<1>3. IInv /\ QInv /\ HInv /\ [Next]_vars => [A]_vars
  <2>1. ~ActiveOK => BmcImage = "bad"
    BY DEF ActiveOK, BmcImage
  <2> QED BY <2>1, LockStep
<1>4. [B]_vars => [C]_vars
  OBVIOUS
<1> QED
  BY <1>1, <1>2, <1>3, <1>4, Invariance, QInvariance, PTL
     DEF Spec, LocksBrokenBmc, CommandsAtRest, CommandsInTurn
=============================================================================
