-------------------------- MODULE HrotReleaseProofs --------------------------
(***************************************************************************)
(* When the BMC is held, for every value of the remaining constants of     *)
(* Hrot: any number of mailbox commands, faulty writes, corruptions and    *)
(* resets, any queue capacity.  The interrupts that TLC shows to break     *)
(* these properties are ruled out by hypotheses: no BMC reset indication,  *)
(* no watchdog expiry, and no mailbox command while an event waits.  In    *)
(* the same behaviours the events that wait are bounded as QueueBounded    *)
(* says; HrotProofs bounds them without the hypotheses, less tightly.      *)
(***************************************************************************)
EXTENDS HrotProofs

\* The BMC writes a command only when no event waits in the FIFO (a handler
\* may still be running).
CommandsInTurn == [][left'.cmd < left.cmd => evq = <<>>]_vars

\* The queue q holds an event for state s.
Waits(q, s) == \E k \in 1..Len(q) : q[k].state = s

\* The queue q holds an event for state s before one for state t.
Before(q, s, t) ==
  \E j \in 1..Len(q), k \in 1..Len(q) : j < k /\ q[j].state = s /\ q[k].state = t

\* The object of the initial events has something to process.
InUse == ao["Bmc"].pnc = 1

\* The main thread is inside the handler of state s.
Inside(s) == cur = s /\ pc # "parent"

-----------------------------------------------------------------------------
(* The inductive invariant                                                 *)

\* No interrupt but the mailbox's comes, so no event carries the watchdogs'
\* object.
NoWdt(q) == \A k \in 1..Len(q) : q[k].ao # "Wdt"
NoInterrupts == left.bmcReset = 0 /\ left.timeout = 0 /\ ctx.ao # "Wdt" /\ NoWdt(evq)

\* While the object is in use a handler finds room for one more event.
Room == /\ Len(evq) <= QMax
        /\ InUse /\ cur \notin {"IDLE", "LOCKDOWN"} /\ pc # "parent" => Len(evq) < QMax

\* A command waits at the head; updates wait before the recoveries; and the
\* verifications and recoveries that wait are two blocks.
Ordered ==
  /\ \A s \in Events : ~Before(evq, s, "I2C")
  /\ ~Before(evq, "RECOVERY", "UPDATE")
  /\ ~Before(evq, "RECOVERY", "VERIFY") \/ ~Before(evq, "VERIFY", "RECOVERY")

\* Inside VERIFY the verifications come first, inside RECOVERY the recoveries,
\* with no update waiting.
Blocks ==
  /\ Inside("VERIFY") => ~Before(evq, "RECOVERY", "VERIFY")
  /\ Inside("RECOVERY") => ~Before(evq, "VERIFY", "RECOVERY") /\ ~Waits(evq, "UPDATE")

\* A command that is not served yet waits at the head, or its handler is about
\* to run; what it finds in the queue is neither an update nor a recovery.
Commanded ==
  ao["I2c"].pnc = 1 =>
    /\ ~Waits(evq, "UPDATE") /\ ~Waits(evq, "RECOVERY")
    /\ (cur = "I2C" /\ pc = "run") \/ (evq # <<>> /\ Head(evq).state = "I2C")
    /\ Inside("VERIFY") => ~InUse

\* The updates of one command follow each other: the one that is to be made
\* holds the BMC, and nothing releases it before the last.
Updating ==
  /\ ao["Update"].pnc = 1 => ~Before(evq, "UPDATE", "VERIFY")
  /\ ao["Update"].pnc = 0 /\ Waits(evq, "UPDATE") => cur = "UPDATE"
  /\ cur = "UPDATE" => /\ ~Before(evq, "VERIFY", "UPDATE") /\ ~Before(evq, "VERIFY", "RECOVERY")
                       /\ ~Before(evq, "I2C", "UPDATE")
                       /\ pc = "publish" => ao["Update"].pnc = 0
                       /\ prov /\ (pc # "run" \/ ao["Update"].pnc = 0) => bmc = "held"

\* A provisioning command taken while the object is in use is the last thing
\* that runs before the BMC is released again.
Unprovisioned ==
  InUse /\ ~prov => ~Waits(evq, "UPDATE") /\ ao["I2c"].pnc = 0 /\ cur # "UPDATE"

\* The BMC is held as long as its object is in use.
HeldInUse == InUse => bmc = "held"

\* A recovery that writes or fails was made for an object in use.
Recovering == pc = "recover" /\ (res.status = "Failure" \/ res.writes # {}) => InUse

QInv == /\ NoInterrupts /\ Room /\ Ordered /\ Blocks /\ Commanded /\ Updating
        /\ Unprovisioned /\ HeldInUse /\ Recovering /\ LockdownHoldsBmc

-----------------------------------------------------------------------------
(* The queue                                                               *)

\* Taking the first event off adds no event and no order, and what is left
\* waited behind it.
LEMMA TailOrder ==
  ASSUME NEW q \in Seq(SmcEvent), q # <<>>
  PROVE  /\ Tail(q) \in Seq(SmcEvent) /\ Len(Tail(q)) = Len(q) - 1
         /\ Head(q) \in SmcEvent
         /\ \A s : Waits(Tail(q), s) => Waits(q, s) /\ Before(q, Head(q).state, s)
         /\ \A s, t : Before(Tail(q), s, t) => Before(q, s, t)
         /\ NoWdt(q) => NoWdt(Tail(q)) /\ Head(q).ao # "Wdt"
         /\ Waits(q, Head(q).state)
<1>1. /\ Tail(q) \in Seq(SmcEvent) /\ Len(Tail(q)) = Len(q) - 1 /\ Len(q) \in Nat /\ Len(q) >= 1
      /\ \A k \in 1..Len(Tail(q)) : Tail(q)[k] = q[k + 1] /\ k + 1 \in 1..Len(q) /\ 1 < k + 1
      /\ Head(q) = q[1] /\ 1 \in 1..Len(q) /\ q[1] \in SmcEvent
  OBVIOUS
<1>2. ASSUME NEW s, Waits(Tail(q), s) PROVE Waits(q, s) /\ Before(q, Head(q).state, s)
  <2>1. PICK k \in 1..Len(Tail(q)) : Tail(q)[k].state = s
    BY <1>2 DEF Waits
  <2>2. k + 1 \in 1..Len(q) /\ 1 < k + 1 /\ q[k + 1].state = s /\ q[1].state = Head(q).state
    BY <1>1, <2>1
  <2> QED BY <1>1, <2>2 DEF Waits, Before
<1>3. ASSUME NEW s, NEW t, Before(Tail(q), s, t) PROVE Before(q, s, t)
  <2>1. PICK j \in 1..Len(Tail(q)), k \in 1..Len(Tail(q)) :
            j < k /\ Tail(q)[j].state = s /\ Tail(q)[k].state = t
    BY <1>3 DEF Before
  <2>2. j + 1 \in 1..Len(q) /\ k + 1 \in 1..Len(q) /\ j + 1 < k + 1
        /\ q[j + 1].state = s /\ q[k + 1].state = t
    BY <1>1, <2>1
  <2> QED BY <2>2 DEF Before
<1>4. NoWdt(q) => NoWdt(Tail(q)) /\ Head(q).ao # "Wdt"
  BY <1>1 DEF NoWdt
<1>5. Waits(q, Head(q).state)
  BY <1>1 DEF Waits
<1> QED
  BY <1>1, <1>2, <1>3, <1>4, <1>5

\* What post_smc_action adds comes last.
LEMMA PostOrder ==
  ASSUME NEW q \in Seq(SmcEvent), NEW state, NEW a, NEW e,
         [state |-> state, ao |-> a, ev |-> e] \in SmcEvent,
         NEW r, r = post_smc_action(q, state, a, e)
  PROVE  /\ r \in Seq(SmcEvent)
         /\ Len(q) <= QMax => Len(r) <= QMax
         /\ Len(r) <= Len(q) + 1
         /\ \A s : Waits(r, s) => Waits(q, s) \/ s = state
         /\ \A s, t : Before(r, s, t) => Before(q, s, t) \/ (t = state /\ Waits(q, s))
         /\ NoWdt(q) /\ a # "Wdt" => NoWdt(r)
         /\ q # <<>> => r # <<>> /\ Head(r) = Head(q)
         /\ Len(q) < QMax => r # <<>>
<1>1. CASE Len(q) >= QMax
  <2>1. r = q
    BY <1>1, BoundsAssumption DEF post_smc_action
  <2> QED BY <2>1, <1>1, BoundsAssumption
<1>2. CASE Len(q) < QMax
  <2> DEFINE x == [state |-> state, ao |-> a, ev |-> e]
  <2>1. r = Append(q, x) /\ x \in SmcEvent /\ x.state = state /\ x.ao = a
    BY <1>2 DEF post_smc_action
  <2> HIDE DEF x
  <2>2. /\ r \in Seq(SmcEvent) /\ Len(r) = Len(q) + 1 /\ Len(q) \in Nat
        /\ \A k \in 1..Len(r) : \/ k \in 1..Len(q) /\ r[k] = q[k]
                                \/ k = Len(q) + 1 /\ r[k] = x
        /\ q # <<>> => r # <<>> /\ Head(r) = Head(q)
    BY <2>1
  <2>3. Len(r) <= QMax /\ r # <<>>
    BY <2>2, <1>2, BoundsAssumption
  <2>4. \A s : Waits(r, s) => Waits(q, s) \/ s = state
    BY <2>1, <2>2 DEF Waits
  <2>5. ASSUME NEW s, NEW t, Before(r, s, t) PROVE Before(q, s, t) \/ (t = state /\ Waits(q, s))
    <3>1. PICK j \in 1..Len(r), k \in 1..Len(r) : j < k /\ r[j].state = s /\ r[k].state = t
      BY <2>5 DEF Before
    <3>2. j \in 1..Len(q) /\ r[j] = q[j]
      BY <2>2, <3>1
    <3> QED BY <2>1, <2>2, <3>1, <3>2 DEF Before, Waits
  <2>6. NoWdt(q) /\ a # "Wdt" => NoWdt(r)
    BY <2>1, <2>2 DEF NoWdt
  <2> QED BY <2>2, <2>3, <2>4, <2>5, <2>6
<1> QED
  BY <1>1, <1>2, BoundsAssumption

\* A verification that is posted comes last.
LEMMA PostVerify ==
  ASSUME NEW q \in Seq(SmcEvent), NEW e, e \in {"Bmc0", "Bmc1"},
         NEW r, r = post_smc_action(q, "VERIFY", "Bmc", e)
  PROVE  /\ r \in Seq(SmcEvent)
         /\ Len(q) <= QMax => Len(r) <= QMax
         /\ \A s : Waits(r, s) => Waits(q, s) \/ s = "VERIFY"
         /\ \A s, t : Before(r, s, t) => Before(q, s, t) \/ (t = "VERIFY" /\ Waits(q, s))
         /\ NoWdt(q) => NoWdt(r)
         /\ q # <<>> => r # <<>> /\ Head(r) = Head(q)
         /\ Len(q) < QMax => r # <<>>
<1>1. [state |-> "VERIFY", ao |-> "Bmc", ev |-> e] \in SmcEvent
  BY DEF SmcEvent, Events, AOs, Evs
<1> QED
  BY <1>1, PostOrder

\* So do two of them.
LEMMA PostTwo ==
  ASSUME NEW q \in Seq(SmcEvent), NEW e, e \in {"Bmc0", "Bmc1"}, NEW f, f \in {"Bmc0", "Bmc1"},
         NEW r, r = post_smc_action(post_smc_action(q, "VERIFY", "Bmc", e), "VERIFY", "Bmc", f)
  PROVE  /\ Len(q) <= QMax => Len(r) <= QMax
         /\ \A s : Waits(r, s) => Waits(q, s) \/ s = "VERIFY"
         /\ \A s, t : Before(r, s, t) =>
              Before(q, s, t) \/ (t = "VERIFY" /\ (Waits(q, s) \/ s = "VERIFY"))
         /\ NoWdt(q) => NoWdt(r)
         /\ q # <<>> => r # <<>> /\ Head(r) = Head(q)
<1>1. PICK once : once = post_smc_action(q, "VERIFY", "Bmc", e)
  OBVIOUS
<1>2. /\ once \in Seq(SmcEvent)
      /\ Len(q) <= QMax => Len(once) <= QMax
      /\ \A s : Waits(once, s) => Waits(q, s) \/ s = "VERIFY"
      /\ \A s, t : Before(once, s, t) => Before(q, s, t) \/ (t = "VERIFY" /\ Waits(q, s))
      /\ NoWdt(q) => NoWdt(once)
      /\ q # <<>> => once # <<>> /\ Head(once) = Head(q)
  BY <1>1, PostVerify
<1>3. /\ Len(once) <= QMax => Len(r) <= QMax
      /\ \A s : Waits(r, s) => Waits(once, s) \/ s = "VERIFY"
      /\ \A s, t : Before(r, s, t) => Before(once, s, t) \/ (t = "VERIFY" /\ Waits(once, s))
      /\ NoWdt(once) => NoWdt(r)
      /\ once # <<>> => r # <<>> /\ Head(r) = Head(once)
  BY <1>1, <1>2, PostVerify
<1> QED
  BY <1>2, <1>3

\* What waits in an order waits.
LEMMA BeforeWaits ==
  ASSUME NEW q, NEW s, NEW t, Before(q, s, t) PROVE Waits(q, s) /\ Waits(q, t)
  BY DEF Before, Waits

\* Nothing waits in an empty queue, and a single event waits for no other.
LEMMA ShortQueue ==
  /\ \A s : ~Waits(<<>>, s)
  /\ \A s, t : ~Before(<<>>, s, t)
  /\ \A s : Waits(<<InitialEvent>>, s) => s = "INITIALIZE"
  /\ \A s, t : ~Before(<<InitialEvent>>, s, t)
  /\ NoWdt(<<>>) /\ NoWdt(<<InitialEvent>>)
  /\ Len(<<>>) = 0 /\ Len(<<InitialEvent>>) = 1
<1>1. Len(<<>>) = 0 /\ 1..0 = {}
  OBVIOUS
<1>2. \A s, t : ~Waits(<<>>, s) /\ ~Before(<<>>, s, t) /\ NoWdt(<<>>)
  BY <1>1 DEF Waits, Before, NoWdt
<1>3. Len(<<InitialEvent>>) = 1 /\ <<InitialEvent>>[1] = InitialEvent
  OBVIOUS
<1>4. InitialEvent.state = "INITIALIZE" /\ InitialEvent.ao = "NULL"
  BY DEF InitialEvent
<1>5. /\ \A s : Waits(<<InitialEvent>>, s) => s = "INITIALIZE"
      /\ \A s, t : ~Before(<<InitialEvent>>, s, t)
      /\ NoWdt(<<InitialEvent>>)
  BY <1>3, <1>4 DEF Waits, Before, NoWdt
<1> QED
  BY <1>1, <1>2, <1>3, <1>5

\* A faulty write uses up no interrupt.
LEMMA SpendKeeps ==
  ASSUME TypeOK, NEW faults, Spend(faults)
  PROVE  left'.bmcReset = left.bmcReset /\ left'.timeout = left.timeout
  BY DEF TypeOK, Spend

\* What PublishUpdateEvent adds comes last.
LEMMA PublishUpdateOrder ==
  ASSUME NEW q \in Seq(SmcEvent), NEW n \in Nat, NEW r, r = PublishUpdateEvents(q, n)
  PROVE  /\ r \in Seq(SmcEvent)
         /\ Len(q) <= QMax => Len(r) <= QMax
         /\ \A s : Waits(r, s) => Waits(q, s) \/ (s = "UPDATE" /\ n # 0)
         /\ \A s, t : Before(r, s, t) =>
              Before(q, s, t) \/ (t = "UPDATE" /\ (Waits(q, s) \/ s = "UPDATE"))
         /\ NoWdt(q) => NoWdt(r)
<1> DEFINE room == IF Len(q) < QMax THEN QMax - Len(q) ELSE 0
           m == IF n < room THEN n ELSE room
           u == [state |-> "UPDATE", ao |-> "Update", ev |-> "Update"]
           added == [k \in 1..m |-> u]
<1>1. m \in Nat /\ m <= n /\ (Len(q) <= QMax => Len(q) + m <= QMax)
  BY BoundsAssumption
<1>2. u \in SmcEvent /\ u.state = "UPDATE" /\ u.ao = "Update"
  BY DEF SmcEvent, Events, AOs, Evs
<1>3. r = q \o added
  BY DEF PublishUpdateEvents
<1> HIDE DEF m, u
<1>4. added \in Seq(SmcEvent) /\ Len(added) = m
  BY <1>1, <1>2
<1>5. /\ r \in Seq(SmcEvent) /\ Len(r) = Len(q) + m /\ Len(q) \in Nat
      /\ \A k \in 1..Len(r) : \/ k \in 1..Len(q) /\ r[k] = q[k]
                              \/ k > Len(q) /\ r[k] = u /\ m # 0
  BY <1>1, <1>3, <1>4
<1> HIDE DEF added
<1>6. ASSUME NEW s, Waits(r, s) PROVE Waits(q, s) \/ (s = "UPDATE" /\ n # 0)
  BY <1>1, <1>2, <1>5, <1>6 DEF Waits
<1>7. ASSUME NEW s, NEW t, Before(r, s, t)
      PROVE  Before(q, s, t) \/ (t = "UPDATE" /\ (Waits(q, s) \/ s = "UPDATE"))
  <2>1. PICK j \in 1..Len(r), k \in 1..Len(r) : j < k /\ r[j].state = s /\ r[k].state = t
    BY <1>7 DEF Before
  <2>2. CASE k \in 1..Len(q)
    <3>1. j \in 1..Len(q) /\ r[j] = q[j] /\ r[k] = q[k]
      BY <2>1, <2>2, <1>5
    <3> QED BY <2>1, <2>2, <3>1 DEF Before
  <2>3. CASE k > Len(q)
    BY <1>2, <1>5, <2>1, <2>3 DEF Waits
  <2> QED BY <2>2, <2>3, <1>5
<1>8. NoWdt(q) => NoWdt(r)
  BY <1>2, <1>5 DEF NoWdt
<1> QED
  BY <1>1, <1>5, <1>6, <1>7, <1>8

-----------------------------------------------------------------------------
(* One lemma per action                                                    *)

\* The objects each handler works on when no watchdog expires.
LEMMA Contexts ==
  ASSUME IInv, QInv
  PROVE  /\ cur \in {"VERIFY", "RECOVERY"} => ctx.ao = "Bmc" /\ ctx.ev \in {"Bmc0", "Bmc1"}
         /\ cur = "UPDATE" => ctx.ao = "Update" /\ ctx.ev = "Update"
         /\ cur = "I2C" => ctx.ao = "I2c" /\ ctx.ev = "I2c"
         /\ evq \in Seq(SmcEvent)
         /\ \A a \in AOs : ao[a].pnc \in {0, 1}
         /\ "Bmc" \in AOs /\ "I2c" \in AOs /\ "Update" \in AOs
<1>1. cur \notin {"IDLE", "LOCKDOWN"} => [state |-> cur, ao |-> ctx.ao, ev |-> ctx.ev] \in Matched
  BY DEF IInv, Handling
<1>2. ctx.ao # "Wdt"
  BY DEF QInv, NoInterrupts
<1>3. evq \in Seq(SmcEvent) /\ \A a \in AOs : ao[a].pnc \in {0, 1}
  BY Objects DEF IInv, TypeOK, AoData
<1> QED
  BY <1>1, <1>2, <1>3 DEF Matched, AOs

\* A step that moves neither the main thread nor the BMC's line, and leaves the
\* queue and what the objects have to process alone, preserves the invariant.
LEMMA QuietStep ==
  ASSUME QInv, UNCHANGED <<cur, ctx, pc, res, evq, prov, bmc>>,
         \A a \in AOs : ao'[a].pnc = ao[a].pnc,
         left'.bmcReset = left.bmcReset, left'.timeout = left.timeout
  PROVE  QInv'
<1>1. InUse' = InUse /\ ao'["I2c"].pnc = ao["I2c"].pnc /\ ao'["Update"].pnc = ao["Update"].pnc
  BY DEF InUse, AOs
<1> QED
  BY <1>1 DEF QInv, NoInterrupts, Room, Ordered, Blocks, Commanded, Updating, Unprovisioned,
              HeldInUse, Recovering, LockdownHoldsBmc, Inside

\* run_verify up to the authentication: it only ever holds the BMC.
LEMMA VerifyBeginQ ==
  ASSUME IInv, QInv, VerifyBegin PROVE QInv'
<1>1. /\ UNCHANGED <<cur, ctx, evq, ao, prov, left>> /\ pc' \in {"auth", "parent"}
      /\ bmc' = bmc \/ bmc' = "held"
      /\ cur = "VERIFY" /\ pc = "run"
  BY DEF VerifyBegin, BootHold
<1> QED
  BY <1>1 DEF QInv, NoInterrupts, Room, Ordered, Blocks, Commanded, Updating, Unprovisioned,
         HeldInUse, Recovering, LockdownHoldsBmc, InUse, Inside, NoWdt, Waits, Before

\* handlePostVerifySuccess: where it releases the BMC the object is done with.
LEMMA VerifySucceedsQ ==
  ASSUME IInv, QInv, VerifySucceeds PROVE QInv'
<1>1. cur = "VERIFY" /\ pc = "auth" /\ pc' = "parent"
  BY DEF VerifySucceeds, IInv, Handling
<1>2. ctx.ao = "Bmc" /\ ctx.ev \in {"Bmc0", "Bmc1"} /\ ctx.ao \in AOs /\ ctx.ev \in Evs
  BY <1>1, Contexts DEF AOs, Evs
<1> DEFINE d == Verified(ao["Bmc"], ctx.ev, "Success")
           done == d.active = "Success" /\ d.recovery = "Success"
           x == IF done THEN [d EXCEPT !.pnc = 0] ELSE d
<1>3. d \in AoData /\ d.pnc = ao["Bmc"].pnc
  BY <1>2, VerifiedType, Objects DEF IInv, Status
<1>4. x \in AoData /\ (done => x.pnc = 0) /\ (~done => x.pnc = ao["Bmc"].pnc)
  BY <1>3 DEF AoData
<1>5. ao' = [ao EXCEPT !["Bmc"] = x]
  BY <1>2 DEF VerifySucceeds
<1>6. bmc' = bmc \/ done
  BY <1>2 DEF VerifySucceeds, linesVars
<1> HIDE DEF x, d
<1>7. ao'["Bmc"] = x /\ ao'["I2c"] = ao["I2c"] /\ ao'["Update"] = ao["Update"]
  BY <1>4, <1>5, AoStore, Contexts DEF IInv, AOs
<1>8. UNCHANGED <<cur, ctx, evq, prov, left>>
  BY DEF VerifySucceeds
<1>9. InUse' => InUse /\ bmc' = bmc
  BY <1>4, <1>6, <1>7 DEF InUse
<1>10. Room' /\ NoInterrupts' /\ Ordered' /\ Blocks' /\ Commanded' /\ Updating'
  BY <1>1, <1>7, <1>8, <1>9 DEF QInv, NoInterrupts, Room, Ordered, Blocks, Commanded, Updating,
     Inside, NoWdt, Waits, Before
<1>11. Unprovisioned' /\ HeldInUse' /\ Recovering' /\ LockdownHoldsBmc'
  BY <1>1, <1>7, <1>8, <1>9 DEF QInv, Unprovisioned, HeldInUse, Recovering, LockdownHoldsBmc, Waits
<1> QED
  BY <1>10, <1>11 DEF QInv

\* handlePostVerifyFailure: the recovery it posts comes after every event that
\* waits, and no command waits.
LEMMA VerifyFailsQ ==
  ASSUME IInv, QInv, VerifyFails PROVE QInv'
<1>1. cur = "VERIFY" /\ pc = "auth" /\ pc' = "parent"
  BY DEF VerifyFails, IInv, Handling
<1>2. ctx.ao = "Bmc" /\ ctx.ev \in {"Bmc0", "Bmc1"} /\ "Bmc" \in AOs /\ ctx.ev \in Evs
  BY <1>1, Contexts DEF AOs, Evs
<1> DEFINE d == Verified(ao["Bmc"], ctx.ev, "Failure")
<1>3. d \in AoData /\ d.pnc = ao["Bmc"].pnc
  BY <1>2, VerifiedType, Objects DEF IInv, Status
<1>4. PICK x \in AoData : x.pnc = ao["Bmc"].pnc /\ ao' = [ao EXCEPT !["Bmc"] = x]
  <2>1. [d EXCEPT !.prev = "Verify"] \in AoData /\ [d EXCEPT !.prev = "Verify"].pnc = d.pnc
    BY <1>3 DEF AoData
  <2> QED BY <1>2, <1>3, <2>1 DEF VerifyFails
<1> HIDE DEF d
<1>5. ao'["Bmc"].pnc = ao["Bmc"].pnc /\ ao'["I2c"] = ao["I2c"] /\ ao'["Update"] = ao["Update"]
  BY <1>2, <1>4, AoStore DEF IInv, AOs
<1>6. UNCHANGED <<cur, ctx, bmc, prov, left>>
  BY DEF VerifyFails
<1>7. CASE ~InUse
  <2>1. UNCHANGED evq
    BY <1>2, <1>3, <1>7 DEF VerifyFails, InUse, d
  <2> QED
    BY <1>1, <1>5, <1>6, <2>1 DEF QInv, NoInterrupts, Room, Ordered, Blocks, Commanded, Updating,
       Unprovisioned, HeldInUse, Recovering, LockdownHoldsBmc, InUse, Inside
<1>8. CASE InUse
  <2>1. evq' = post_smc_action(evq, "RECOVERY", "Bmc", ctx.ev)
    BY <1>2, <1>3, <1>8 DEF VerifyFails, InUse, d
  <2>2. [state |-> "RECOVERY", ao |-> "Bmc", ev |-> ctx.ev] \in SmcEvent
    BY <1>2 DEF SmcEvent, Events, AOs, Evs
  <2>3. /\ Len(evq) <= QMax => Len(evq') <= QMax
        /\ \A s : Waits(evq', s) => Waits(evq, s) \/ s = "RECOVERY"
        /\ \A s, t : Before(evq', s, t) => Before(evq, s, t) \/ (t = "RECOVERY" /\ Waits(evq, s))
        /\ NoWdt(evq) => NoWdt(evq')
    BY <2>1, <2>2, PostOrder, Contexts
  <2>4. ao["I2c"].pnc # 1
    BY <1>1, <1>8 DEF QInv, Commanded, Inside
  <2>5. ~Before(evq, "RECOVERY", "VERIFY")
    BY <1>1 DEF QInv, Blocks, Inside
  <2>6. NoInterrupts' /\ Room' /\ Ordered' /\ Blocks'
    BY <1>1, <1>5, <1>6, <2>3, <2>5 DEF QInv, NoInterrupts, Room, Ordered, Blocks, Inside, InUse
  <2>7. Commanded' /\ Updating' /\ Unprovisioned'
    BY <1>1, <1>5, <1>6, <1>8, <2>3, <2>4 DEF QInv, Commanded, Updating, Unprovisioned, InUse, Inside
  <2>8. HeldInUse' /\ Recovering' /\ LockdownHoldsBmc'
    BY <1>1, <1>5, <1>6 DEF QInv, HeldInUse, Recovering, LockdownHoldsBmc, InUse
  <2> QED BY <2>6, <2>7, <2>8 DEF QInv
<1> QED
  BY <1>7, <1>8

\* run_recovery up to the flash work: it only ever holds the BMC, and an object
\* that is not in use has nothing written.
LEMMA RecoverBeginQ ==
  ASSUME IInv, QInv, RecoverBegin PROVE QInv'
<1>1. cur = "RECOVERY" /\ pc = "run" /\ pc' = "recover" /\ UNCHANGED <<cur, ctx, evq, ao, prov>>
  BY DEF RecoverBegin
<1>2. ctx.ao = "Bmc" /\ ao["Bmc"].pnc \in {0, 1}
  BY <1>1, Contexts
<1>3. left'.bmcReset = left.bmcReset /\ left'.timeout = left.timeout
  BY DEF RecoverBegin, Spend, IInv, TypeOK
<1>4. bmc' = bmc \/ bmc' = "held"
  BY DEF RecoverBegin, BootHold
<1>5. Recovering'
  <2>1. CASE InUse
    BY <1>1, <2>1 DEF Recovering, InUse
  <2>2. CASE ~InUse
    <3>1. res' = Untouched("Success", flash)
      BY <1>2, <2>2 DEF RecoverBegin, InUse
    <3>2. res'.writes = {} /\ res'.status = "Success"
      BY <3>1, UntouchedType DEF IInv, TypeOK
    <3> QED BY <3>2 DEF Recovering
  <2> QED BY <2>1, <2>2
<1>6. NoInterrupts' /\ Room' /\ Ordered' /\ Blocks' /\ Commanded' /\ Updating'
  BY <1>1, <1>3, <1>4 DEF QInv, NoInterrupts, Room, Ordered, Blocks, Commanded, Updating, InUse, Inside
<1>7. Unprovisioned' /\ HeldInUse' /\ LockdownHoldsBmc'
  BY <1>1, <1>4 DEF QInv, Unprovisioned, HeldInUse, LockdownHoldsBmc, InUse
<1> QED
  BY <1>5, <1>6, <1>7 DEF QInv

\* handlePostRecoverySuccess: the verifications it posts come after every
\* recovery that waits.
LEMMA RecoverSucceedsQ ==
  ASSUME IInv, QInv, RecoverSucceeds PROVE QInv'
<1>1. cur = "RECOVERY" /\ pc = "recover" /\ pc' = "parent" /\ UNCHANGED <<cur, ctx, bmc, prov, left>>
  BY DEF RecoverSucceeds, IInv, Handling
<1>2. ctx.ao = "Bmc" /\ ctx.ev \in {"Bmc0", "Bmc1"} /\ "Bmc" \in AOs /\ ao["Bmc"] \in AoData
  BY <1>1, Contexts, Objects DEF IInv
<1>3. ao'["Bmc"].pnc = ao["Bmc"].pnc /\ ao'["I2c"] = ao["I2c"] /\ ao'["Update"] = ao["Update"]
  <2> DEFINE x == [ao["Bmc"] EXCEPT !.prev = "Recovery",
                     !.active = IF res.status = "VerifyActive" THEN "Success" ELSE @,
                     !.recovery = IF res.status = "VerifyRecovery" THEN "Success" ELSE @]
  <2>1. x \in AoData /\ x.pnc = ao["Bmc"].pnc
    BY <1>2 DEF AoData, Status
  <2>2. ao' = [ao EXCEPT !["Bmc"] = x]
    BY <1>2 DEF RecoverSucceeds
  <2> HIDE DEF x
  <2> QED BY <1>2, <2>1, <2>2, AoStore DEF IInv, AOs
<1>4. /\ Len(evq) <= QMax => Len(evq') <= QMax
      /\ \A s : Waits(evq', s) => Waits(evq, s) \/ s = "VERIFY"
      /\ \A s, t : Before(evq', s, t) =>
           Before(evq, s, t) \/ (t = "VERIFY" /\ (Waits(evq, s) \/ s = "VERIFY"))
      /\ NoWdt(evq) => NoWdt(evq')
      /\ evq # <<>> => evq' # <<>> /\ Head(evq') = Head(evq)
  <2> DEFINE once == IF res.status = "Success" THEN evq
                     ELSE post_smc_action(evq, "VERIFY", "Bmc", ctx.ev)
  <2>1. evq' = post_smc_action(once, "VERIFY", "Bmc", ctx.ev)
    BY <1>2 DEF RecoverSucceeds
  <2>2. /\ once \in Seq(SmcEvent)
        /\ Len(evq) <= QMax => Len(once) <= QMax
        /\ \A s : Waits(once, s) => Waits(evq, s) \/ s = "VERIFY"
        /\ \A s, t : Before(once, s, t) => Before(evq, s, t) \/ (t = "VERIFY" /\ Waits(evq, s))
        /\ NoWdt(evq) => NoWdt(once)
        /\ evq # <<>> => once # <<>> /\ Head(once) = Head(evq)
    BY <1>2, PostVerify, Contexts
  <2> HIDE DEF once
  <2>3. /\ Len(once) <= QMax => Len(evq') <= QMax
        /\ \A s : Waits(evq', s) => Waits(once, s) \/ s = "VERIFY"
        /\ \A s, t : Before(evq', s, t) => Before(once, s, t) \/ (t = "VERIFY" /\ Waits(once, s))
        /\ NoWdt(once) => NoWdt(evq')
        /\ once # <<>> => evq' # <<>> /\ Head(evq') = Head(once)
    BY <1>2, <2>1, <2>2, PostVerify
  <2> QED BY <2>2, <2>3
<1>5. ~Before(evq, "VERIFY", "RECOVERY") /\ ~Waits(evq, "UPDATE")
  BY <1>1 DEF QInv, Blocks, Inside
<1>6. ~Before(evq, "UPDATE", "VERIFY") => ~Before(evq', "UPDATE", "VERIFY")
  BY <1>4, <1>5
<1>7. NoInterrupts' /\ Room' /\ Ordered' /\ Blocks'
  BY <1>1, <1>3, <1>4, <1>5 DEF QInv, NoInterrupts, Room, Ordered, Blocks, Inside, InUse
<1>8. Commanded' /\ Updating' /\ Unprovisioned'
  BY <1>1, <1>3, <1>4, <1>5, <1>6 DEF QInv, Commanded, Updating, Unprovisioned, InUse, Inside
<1>9. HeldInUse' /\ Recovering' /\ LockdownHoldsBmc'
  BY <1>1, <1>3 DEF QInv, HeldInUse, Recovering, LockdownHoldsBmc, InUse
<1> QED
  BY <1>7, <1>8, <1>9 DEF QInv

\* handlePostRecoveryFailure: a lockdown finds the BMC held, and a release
\* leaves the object done with.
LEMMA RecoverFailsQ ==
  ASSUME IInv, QInv, RecoverFails PROVE QInv'
<1>1. cur = "RECOVERY" /\ pc = "recover" /\ UNCHANGED <<evq, prov, left>>
  BY DEF RecoverFails, IInv, Handling
<1>2. ctx.ao = "Bmc" /\ "Bmc" \in AOs /\ ao["Bmc"] \in AoData
  BY <1>1, Contexts, Objects DEF IInv
<1>3. InUse /\ bmc = "held"
  BY <1>1 DEF RecoverFails, QInv, Recovering, HeldInUse
<1>4. /\ ao'["I2c"] = ao["I2c"] /\ ao'["Update"] = ao["Update"]
      /\ InUse' => UNCHANGED bmc
  <2> DEFINE locked == [ao["Bmc"] EXCEPT !.lockdown = 1, !.pnc = 0]
             freed == [ao["Bmc"] EXCEPT !.pnc = 0]
  <2>1. locked \in AoData /\ freed \in AoData /\ locked.pnc = 0 /\ freed.pnc = 0
    BY <1>2 DEF AoData
  <2>2. CASE ao' = ao /\ UNCHANGED linesVars
    BY <2>2 DEF linesVars
  <2>3. CASE \E x \in {locked, freed} : ao' = [ao EXCEPT !["Bmc"] = x]
    <3>1. PICK x \in {locked, freed} : ao' = [ao EXCEPT !["Bmc"] = x]
      BY <2>3
    <3>2. x \in AoData /\ x.pnc = 0
      BY <2>1, <3>1
    <3> QED BY <1>2, <3>1, <3>2, AoStore DEF IInv, AOs, InUse
  <2> QED BY <1>2, <2>2, <2>3 DEF RecoverFails
<1>5. \/ cur' = "LOCKDOWN" /\ pc' = "run" /\ UNCHANGED bmc
      \/ cur' = cur /\ pc' = "parent"
  BY DEF RecoverFails, linesVars
<1>6. ctx'.ao = ctx.ao
  BY DEF RecoverFails, IInv, TypeOK
<1>7. ~Waits(evq, "UPDATE")
  BY <1>1 DEF QInv, Blocks, Inside
<1>8. NoInterrupts' /\ Room' /\ Ordered' /\ Blocks'
  BY <1>1, <1>5, <1>6 DEF QInv, NoInterrupts, Room, Ordered, Blocks, Inside, InUse
<1>9. Commanded' /\ Updating' /\ Unprovisioned'
  BY <1>1, <1>3, <1>4, <1>5, <1>7 DEF QInv, Commanded, Updating, Unprovisioned, Inside
<1>10. HeldInUse' /\ Recovering' /\ LockdownHoldsBmc'
  BY <1>1, <1>3, <1>4, <1>5 DEF HeldInUse, Recovering, LockdownHoldsBmc
<1> QED
  BY <1>8, <1>9, <1>10 DEF QInv

\* handle_update_image_action: an update that is to be made holds the BMC, and
\* one that is not finds it held by the update before.
LEMMA UpdateBeginQ ==
  ASSUME IInv, QInv, UpdateBegin PROVE QInv'
<1>1. cur = "UPDATE" /\ pc = "run" /\ pc' = "update" /\ UNCHANGED <<cur, ctx, evq, ao, prov>>
  BY DEF UpdateBegin
<1>2. ctx.ao = "Update" /\ ao["Update"].pnc \in {0, 1}
  BY <1>1, Contexts
<1>3. left'.bmcReset = left.bmcReset /\ left'.timeout = left.timeout
  BY DEF UpdateBegin, Spend, IInv, TypeOK
<1>4. bmc' = "held" \/ (bmc' = bmc /\ ao["Update"].pnc = 0)
  BY <1>2 DEF UpdateBegin, BootHold
<1>5. NoInterrupts' /\ Room' /\ Ordered' /\ Blocks' /\ Commanded'
  BY <1>1, <1>3, <1>4 DEF QInv, NoInterrupts, Room, Ordered, Blocks, Commanded, InUse, Inside
<1>6. Updating'
  BY <1>1, <1>4 DEF QInv, Updating
<1>7. Unprovisioned' /\ HeldInUse' /\ Recovering' /\ LockdownHoldsBmc'
  BY <1>1, <1>4 DEF QInv, Unprovisioned, HeldInUse, Recovering, LockdownHoldsBmc, InUse
<1> QED
  BY <1>5, <1>6, <1>7 DEF QInv

\* The end of an update leaves nothing for the updates that follow it.
LEMMA UpdateEndQ ==
  ASSUME IInv, QInv, UpdateEnd PROVE QInv'
<1>1. cur = "UPDATE" /\ pc = "update" /\ pc' = "publish" /\ UNCHANGED <<cur, ctx, evq, prov, bmc, left>>
  BY DEF UpdateEnd, IInv, Handling
<1>2. ctx.ao = "Update" /\ "Update" \in AOs /\ ao["Update"] \in AoData
  BY <1>1, Contexts, Objects DEF IInv
<1>3. ao'["Bmc"] = ao["Bmc"] /\ ao'["I2c"] = ao["I2c"] /\ ao'["Update"].pnc = 0
  <2> DEFINE d == [ao["Update"] EXCEPT !.pnc = 0]
  <2>1. d \in AoData /\ d.pnc = 0
    BY <1>2 DEF AoData
  <2>2. ao' = [ao EXCEPT !["Update"] = d]
    BY <1>2 DEF UpdateEnd
  <2> HIDE DEF d
  <2> QED BY <1>2, <2>1, <2>2, AoStore DEF IInv, AOs
<1>4. NoInterrupts' /\ Room' /\ Ordered' /\ Blocks' /\ Commanded'
  BY <1>1, <1>3 DEF QInv, NoInterrupts, Room, Ordered, Blocks, Commanded, InUse, Inside
<1>5. Updating'
  BY <1>1, <1>3 DEF QInv, Updating
<1>6. Unprovisioned' /\ HeldInUse' /\ Recovering' /\ LockdownHoldsBmc'
  BY <1>1, <1>3 DEF QInv, Unprovisioned, HeldInUse, Recovering, LockdownHoldsBmc, InUse
<1> QED
  BY <1>4, <1>5, <1>6 DEF QInv

\* PublishInitialEvents: on a provisioned platform the object is in use, its
\* verifications wait last and the BMC is not released; on another the BMC is
\* released and nothing is posted.
LEMMA PublishOrder ==
  ASSUME IInv, NEW q, q \in Seq(SmcEvent), PublishInitialEvents(q)
  PROVE  /\ left'.bmcReset = left.bmcReset /\ left'.timeout = left.timeout
         /\ ao'["I2c"] = ao["I2c"] /\ ao'["Update"] = ao["Update"]
         /\ prov => InUse' /\ (bmc' = bmc \/ bmc' = "held")
         /\ ~prov => ao' = ao
         /\ Len(q) <= QMax => Len(evq') <= QMax
         /\ \A s : Waits(evq', s) => Waits(q, s) \/ s = "VERIFY"
         /\ \A s, t : Before(evq', s, t) =>
              Before(q, s, t) \/ (t = "VERIFY" /\ (Waits(q, s) \/ s = "VERIFY"))
         /\ NoWdt(q) => NoWdt(evq')
         /\ q # <<>> => evq' # <<>> /\ Head(evq') = Head(q)
<1>1. CASE prov /\ check_staging_area /\ PublishBmcEvents(q) /\ UNCHANGED <<wdt, monitor>>
  <2>1. left'.bmcReset = left.bmcReset /\ left'.timeout = left.timeout
    <3>1. \E faults : Spend(faults)
      BY <1>1 DEF check_staging_area
    <3> QED BY <3>1, SpendKeeps DEF IInv
  <2>2. bmc' = bmc \/ bmc' = "held"
    BY <1>1 DEF check_staging_area, BootHold
  <2>3. InUse' /\ ao'["I2c"] = ao["I2c"] /\ ao'["Update"] = ao["Update"]
    <3> DEFINE d == [type |-> "BMC", active |-> "Failure", recovery |-> "Failure",
                     prev |-> "Initial", pnc |-> 1, lockdown |-> ao["Bmc"].lockdown]
    <3>1. "Bmc" \in AOs /\ ao["Bmc"] \in AoData
      BY Objects DEF IInv
    <3>2. d \in AoData /\ d.pnc = 1
      BY <3>1 DEF AoData, Status
    <3>3. ao' = [ao EXCEPT !["Bmc"] = d]
      BY <1>1 DEF PublishBmcEvents
    <3> HIDE DEF d
    <3> QED BY <3>1, <3>2, <3>3, AoStore DEF IInv, AOs, InUse
  <2>4. PICK e \in {"Bmc0", "Bmc1"}, f \in {"Bmc0", "Bmc1"} :
          evq' = post_smc_action(post_smc_action(q, "VERIFY", "Bmc", e), "VERIFY", "Bmc", f)
    BY <1>1 DEF PublishBmcEvents
  <2> QED BY <1>1, <2>1, <2>2, <2>3, <2>4, PostTwo
<1>2. CASE ~prov /\ T0Transition(TRUE, TRUE) /\ evq' = q
           /\ UNCHANGED <<ao, ev, ufm, flash, cpld, left>>
  BY <1>2
<1> QED
  BY <1>1, <1>2 DEF PublishInitialEvents

\* Publishing the initial events again finds the BMC of a provisioned platform
\* held, and the object of another one not in use.
LEMMA UpdatePublishQ ==
  ASSUME IInv, QInv, UpdatePublish PROVE QInv'
<1>1. cur = "UPDATE" /\ pc = "publish" /\ pc' = "parent" /\ UNCHANGED <<cur, ctx, prov>>
  BY DEF UpdatePublish, IInv, Handling
<1>2. evq \in Seq(SmcEvent) /\ PublishInitialEvents(evq)
  BY Contexts DEF UpdatePublish
<1>3. /\ left'.bmcReset = left.bmcReset /\ left'.timeout = left.timeout
      /\ ao'["I2c"] = ao["I2c"] /\ ao'["Update"] = ao["Update"]
      /\ Len(evq) <= QMax => Len(evq') <= QMax
      /\ \A s : Waits(evq', s) => Waits(evq, s) \/ s = "VERIFY"
      /\ \A s, t : Before(evq', s, t) =>
           Before(evq, s, t) \/ (t = "VERIFY" /\ (Waits(evq, s) \/ s = "VERIFY"))
      /\ NoWdt(evq) => NoWdt(evq')
      /\ evq # <<>> => evq' # <<>> /\ Head(evq') = Head(evq)
  BY <1>2, PublishOrder
<1>4. /\ ao["Update"].pnc = 0 /\ (prov => bmc = "held")
      /\ ~Before(evq, "VERIFY", "UPDATE") /\ ~Before(evq, "VERIFY", "RECOVERY")
  BY <1>1 DEF QInv, Updating
<1>5. (prov => bmc' = "held") /\ (~prov => InUse' = InUse)
  BY <1>2, <1>4, PublishOrder DEF InUse
<1>6. ~prov => ~InUse
  BY <1>1 DEF QInv, Unprovisioned
<1>7. NoInterrupts' /\ Room' /\ Ordered' /\ Blocks'
  BY <1>1, <1>3, <1>4 DEF QInv, NoInterrupts, Room, Ordered, Blocks, Inside
<1>8. Commanded'
  BY <1>1, <1>3 DEF QInv, Commanded, Inside
<1>9. Updating'
  BY <1>1, <1>3, <1>4, <1>5 DEF QInv, Updating
<1>10. Unprovisioned' /\ HeldInUse' /\ Recovering' /\ LockdownHoldsBmc'
  BY <1>1, <1>5, <1>6 DEF Unprovisioned, HeldInUse, Recovering, LockdownHoldsBmc
<1> QED
  BY <1>7, <1>8, <1>9, <1>10 DEF QInv

\* A restart leads to a state with the BMC held and nothing in use.
LEMMA RebootQ ==
  ASSUME Reboot, left'.bmcReset = 0, left'.timeout = 0 PROVE QInv'
<1>1. /\ cur' = "IDLE" /\ pc' = "run" /\ evq' = <<InitialEvent>> /\ bmc' = "held"
      /\ ctx'.ao = "NULL"
  BY DEF Reboot, NoContext
<1>2. ao'["Bmc"].pnc = 0 /\ ao'["I2c"].pnc = 0 /\ ao'["Update"].pnc = 0
  BY DEF Reboot, BlankAO, AOs
<1>3. ~InUse'
  BY <1>2 DEF InUse
<1>4. NoInterrupts' /\ Room' /\ Ordered' /\ Blocks' /\ Commanded'
  BY <1>1, <1>2, <1>3, ShortQueue, BoundsAssumption
     DEF NoInterrupts, Room, Ordered, Blocks, Commanded, Inside
<1>5. Updating' /\ Unprovisioned' /\ HeldInUse' /\ Recovering' /\ LockdownHoldsBmc'
  BY <1>1, <1>2, <1>3, ShortQueue
     DEF Updating, Unprovisioned, HeldInUse, Recovering, LockdownHoldsBmc
<1> QED
  BY <1>4, <1>5 DEF QInv

\* So does the start.
LEMMA InitQ ==
  ASSUME MaxBmcReset = 0, MaxTimeout = 0, Init PROVE QInv
<1>1. /\ cur = "IDLE" /\ pc = "run" /\ evq = <<InitialEvent>> /\ bmc = "held"
      /\ ctx.ao = "NULL" /\ left.bmcReset = 0 /\ left.timeout = 0
  BY DEF Init, Boot, NoContext
<1>2. ao["Bmc"].pnc = 0 /\ ao["I2c"].pnc = 0 /\ ao["Update"].pnc = 0
  BY DEF Init, Boot, BlankAO, AOs
<1>3. ~InUse
  BY <1>2 DEF InUse
<1>4. NoInterrupts /\ Room /\ Ordered /\ Blocks /\ Commanded
  BY <1>1, <1>2, <1>3, ShortQueue, BoundsAssumption
     DEF NoInterrupts, Room, Ordered, Blocks, Commanded, Inside
<1>5. Updating /\ Unprovisioned /\ HeldInUse /\ Recovering /\ LockdownHoldsBmc
  BY <1>1, <1>2, <1>3, ShortQueue
     DEF Updating, Unprovisioned, HeldInUse, Recovering, LockdownHoldsBmc
<1> QED
  BY <1>4, <1>5 DEF QInv

\* What UpdateIntentHandle does to queue and objects: the updates it asks for
\* come last and are to be made.
LEMMA IntentOrder ==
  ASSUME IInv, NEW bits, NEW source, UpdateIntentHandle(bits, source)
  PROVE  /\ Len(evq) <= QMax => Len(evq') <= QMax
         /\ \A s : Waits(evq', s) => Waits(evq, s) \/ (s = "UPDATE" /\ ao'["Update"].pnc = 1)
         /\ \A s, t : Before(evq', s, t) =>
              Before(evq, s, t) \/ (t = "UPDATE" /\ (Waits(evq, s) \/ s = "UPDATE"))
         /\ NoWdt(evq) => NoWdt(evq')
         /\ ao'["Bmc"] = ao["Bmc"] /\ ao'["I2c"].pnc = 0
<1> DEFINE calls == UpdateEvents(bits)
           n == Len(calls)
           served == [ao EXCEPT !["I2c"].pnc = 0]
<1>1. calls \in Seq([image : {"BMC", "PCH", "HROT"}, flash : {"PRIMARY", "SECONDARY"}])
  BY UpdateEventsType
<1>2. n \in Nat
  BY <1>1
<1>3. /\ served["Bmc"] = ao["Bmc"] /\ served["I2c"].pnc = 0 /\ served["Update"] = ao["Update"]
      /\ DOMAIN served = AOs /\ "Update" \in AOs /\ "I2c" \in AOs /\ "Bmc" \in AOs
      /\ ao["Update"] \in AoData
  <2>1. "I2c" \in AOs /\ ao["I2c"] \in AoData /\ "Update" \in AOs /\ ao["Update"] \in AoData
    BY Objects DEF IInv, AOs
  <2> DEFINE d == [ao["I2c"] EXCEPT !.pnc = 0]
  <2>2. d \in AoData /\ d.pnc = 0
    BY <2>1 DEF AoData
  <2>3. served = [ao EXCEPT !["I2c"] = d]
    OBVIOUS
  <2> HIDE DEF d, served
  <2> QED BY <2>1, <2>2, <2>3, AoStore DEF IInv, AOs
<1>4. /\ evq' = PublishUpdateEvents(evq, n)
      /\ n = 0 => ao' = served
      /\ n # 0 => ao' = [served EXCEPT !["Update"] = [ao["Update"] EXCEPT !.type = calls[n].image,
                                                                      !.pnc = 1]]
  BY <1>3 DEF UpdateIntentHandle, IInv, TypeOK
<1> HIDE DEF calls, n, served
<1>5. ao'["Bmc"] = ao["Bmc"] /\ ao'["I2c"].pnc = 0 /\ (n # 0 => ao'["Update"].pnc = 1)
  <2>1. CASE n = 0
    BY <1>3, <1>4, <2>1
  <2>2. CASE n # 0
    <3> DEFINE d == [ao["Update"] EXCEPT !.type = calls[n].image, !.pnc = 1]
    <3>1. d.pnc = 1
      BY <1>3 DEF AoData
    <3>2. ao' = [served EXCEPT !["Update"] = d]
      BY <1>4, <2>2
    <3> HIDE DEF d
    <3> QED BY <1>3, <3>1, <3>2
  <2> QED BY <2>1, <2>2
<1>6. evq \in Seq(SmcEvent)
  BY DEF IInv, TypeOK
<1>7. /\ Len(evq) <= QMax => Len(evq') <= QMax
      /\ \A s : Waits(evq', s) => Waits(evq, s) \/ (s = "UPDATE" /\ n # 0)
      /\ \A s, t : Before(evq', s, t) =>
           Before(evq, s, t) \/ (t = "UPDATE" /\ (Waits(evq, s) \/ s = "UPDATE"))
      /\ NoWdt(evq) => NoWdt(evq')
  BY <1>2, <1>4, <1>6, PublishUpdateOrder
<1> QED
  BY <1>5, <1>7

\* process_i2c_command: a command is served with neither an update nor a
\* recovery waiting, so its updates follow no recovery and no other update.
LEMMA RunI2cQ ==
  ASSUME IInv, QInv, RunI2c PROVE QInv'
<1>1. /\ cur = "I2C" /\ pc = "run" /\ pc' = "parent" /\ UNCHANGED <<cur, ctx, bmc, left>>
      /\ ctx.ao = "I2c" /\ ao["I2c"].pnc \in {0, 1} /\ evq \in Seq(SmcEvent)
  BY Contexts DEF RunI2c
<1>2. CASE ao["I2c"].pnc = 0
  <2>1. UNCHANGED <<ao, evq, prov>>
    BY <1>1, <1>2 DEF RunI2c
  <2> QED
    BY <1>1, <1>2, <2>1 DEF QInv, NoInterrupts, Room, Ordered, Blocks, Commanded, Updating,
       Unprovisioned, HeldInUse, Recovering, LockdownHoldsBmc, InUse, Inside
<1>3. CASE ao["I2c"].pnc = 1
  <2>1. ~Waits(evq, "UPDATE") /\ ~Waits(evq, "RECOVERY") /\ (InUse => prov)
    BY <1>3 DEF QInv, Commanded, Unprovisioned
  <2>2. ~Before(evq, "UPDATE", "VERIFY")
    BY <2>1, BeforeWaits
  <2>3. CASE ao' = [ao EXCEPT !["I2c"].pnc = 0] /\ UNCHANGED evq
    <3>1. ao'["Bmc"] = ao["Bmc"] /\ ao'["Update"] = ao["Update"] /\ ao'["I2c"].pnc = 0
      <4> DEFINE d == [ao["I2c"] EXCEPT !.pnc = 0]
      <4>1. "I2c" \in AOs /\ ao["I2c"] \in AoData
        BY Objects DEF IInv, AOs
      <4>2. d \in AoData /\ d.pnc = 0
        BY <4>1 DEF AoData
      <4>3. ao' = [ao EXCEPT !["I2c"] = d]
        BY <2>3
      <4> HIDE DEF d
      <4> QED BY <4>1, <4>2, <4>3, AoStore DEF IInv, AOs
    <3> QED
      BY <1>1, <2>1, <2>3, <3>1 DEF QInv, NoInterrupts, Room, Ordered, Blocks, Commanded, Updating,
         Unprovisioned, HeldInUse, Recovering, LockdownHoldsBmc, InUse, Inside
  <2>4. CASE UpdateIntentHandle(cmd.bits, cmd.source) /\ UNCHANGED prov
    <3>1. /\ Len(evq) <= QMax => Len(evq') <= QMax
          /\ \A s : Waits(evq', s) => Waits(evq, s) \/ (s = "UPDATE" /\ ao'["Update"].pnc = 1)
          /\ \A s, t : Before(evq', s, t) =>
               Before(evq, s, t) \/ (t = "UPDATE" /\ (Waits(evq, s) \/ s = "UPDATE"))
          /\ NoWdt(evq) => NoWdt(evq')
          /\ ao'["Bmc"] = ao["Bmc"] /\ ao'["I2c"].pnc = 0
      BY <2>4, IntentOrder
    <3>2. NoInterrupts' /\ Room' /\ Ordered' /\ Blocks' /\ Commanded'
      BY <1>1, <2>1, <3>1 DEF QInv, NoInterrupts, Room, Ordered, Blocks, Commanded, Inside
    <3>3. Updating'
      BY <1>1, <2>1, <2>2, <3>1 DEF Updating
    <3>4. Unprovisioned' /\ HeldInUse' /\ Recovering' /\ LockdownHoldsBmc'
      BY <1>1, <2>1, <2>4, <3>1 DEF QInv, Unprovisioned, HeldInUse, Recovering, LockdownHoldsBmc, InUse
    <3> QED BY <3>2, <3>3, <3>4 DEF QInv
  <2> QED BY <1>1, <1>3, <2>3, <2>4 DEF RunI2c
<1> QED
  BY <1>1, <1>2, <1>3

\* run_lockdown marks the object and nothing else.
LEMMA RunLockdownQ ==
  ASSUME IInv, QInv, RunLockdown PROVE QInv'
<1>1. UNCHANGED <<cur, ctx, pc, res, evq, prov, bmc, left>>
  BY DEF RunLockdown
<1>2. \A a \in AOs : ao'[a].pnc = ao[a].pnc
  <2>1. ao \in [AOs -> AoData] /\ ao' = [ao EXCEPT ![ctx.ao] = [@ EXCEPT !.lockdown = 1]]
    BY DEF RunLockdown, IInv, TypeOK
  <2>2. \A d \in AoData : [d EXCEPT !.lockdown = 1].pnc = d.pnc
    BY DEF AoData
  <2> QED BY <2>1, <2>2
<1> QED
  BY <1>1, <1>2, QuietStep

\* run_idle with nothing to dispatch: the handler of the current state runs
\* again, and finds an empty queue and no command.
LEMMA IdleEmptyQ ==
  ASSUME IInv, QInv, IdleEmpty PROVE QInv'
<1>1. evq = <<>> /\ pc' = "run" /\ UNCHANGED <<cur, ctx, evq, ao, prov, bmc, left>>
  BY DEF IdleEmpty
<1>2. ao["I2c"].pnc # 1
  BY <1>1 DEF QInv, Commanded, IdleEmpty, AtIdle
<1>3. cur = "UPDATE" => pc = "parent"
  BY DEF IdleEmpty, AtIdle
<1>4. /\ \A s : ~Waits(evq, s)
      /\ \A s, t : ~Before(evq, s, t)
      /\ Len(evq) = 0
  BY <1>1, ShortQueue
<1>5. NoInterrupts' /\ Room' /\ Ordered' /\ Blocks' /\ Commanded'
  BY <1>1, <1>2, <1>4, BoundsAssumption
     DEF QInv, NoInterrupts, Room, Ordered, Blocks, Commanded, Inside, InUse
<1>6. Updating'
  BY <1>1, <1>3, <1>4 DEF QInv, Updating
<1>7. Unprovisioned' /\ HeldInUse' /\ Recovering' /\ LockdownHoldsBmc'
  BY <1>1, <1>2 DEF QInv, Unprovisioned, HeldInUse, Recovering, LockdownHoldsBmc, InUse
<1> QED
  BY <1>5, <1>6, <1>7 DEF QInv

\* The INITIALIZE event finds an empty queue behind it and the BMC held.
LEMMA IdleInitializeQ ==
  ASSUME IInv, QInv, IdleInitialize PROVE QInv'
<1>1. Booting
  <2>1. ASSUME Running PROVE FALSE
    <3>1. evq \in Seq(Matched) /\ evq # <<>>
      BY <2>1 DEF Running, IdleInitialize
    <3>2. Head(evq) \in Matched
      BY <3>1
    <3>3. Head(evq).state = "INITIALIZE"
      BY DEF IdleInitialize
    <3> QED BY <3>2, <3>3 DEF Matched
  <2> QED BY <2>1 DEF IInv
<1>2. /\ cur' = "IDLE" /\ pc' = "run" /\ ctx'.ao = "NULL" /\ UNCHANGED prov
      /\ bmc = "held" /\ ~InUse
      /\ Tail(evq) = <<>> /\ PublishInitialEvents(<<>>)
  BY <1>1 DEF Booting, IdleInitialize, NoContext, InUse
<1>3. <<>> \in Seq(SmcEvent) /\ Len(<<>>) = 0
  OBVIOUS
<1>4. PICK q : q = <<>>
  OBVIOUS
<1>5. q \in Seq(SmcEvent) /\ PublishInitialEvents(q)
      /\ Len(q) = 0 /\ \A s, t : ~Waits(q, s) /\ ~Before(q, s, t) /\ NoWdt(q)
  BY <1>2, <1>3, <1>4, ShortQueue
<1>6. /\ left'.bmcReset = left.bmcReset /\ left'.timeout = left.timeout
      /\ ao'["I2c"] = ao["I2c"]
      /\ prov => bmc' = "held"
      /\ ~prov => ao' = ao
      /\ Len(evq') <= QMax
      /\ \A s : Waits(evq', s) => s = "VERIFY"
      /\ \A s, t : Before(evq', s, t) => t = "VERIFY" /\ s = "VERIFY"
      /\ NoWdt(evq')
  <2>1. /\ left'.bmcReset = left.bmcReset /\ left'.timeout = left.timeout
        /\ ao'["I2c"] = ao["I2c"]
        /\ prov => bmc' = bmc \/ bmc' = "held"
        /\ ~prov => ao' = ao
        /\ Len(q) <= QMax => Len(evq') <= QMax
        /\ \A s : Waits(evq', s) => Waits(q, s) \/ s = "VERIFY"
        /\ \A s, t : Before(evq', s, t) =>
             Before(q, s, t) \/ (t = "VERIFY" /\ (Waits(q, s) \/ s = "VERIFY"))
        /\ NoWdt(q) => NoWdt(evq')
    BY <1>5, PublishOrder
  <2>2. bmc = "held"
    BY <1>2
  <2>3. Len(q) <= QMax
    BY <1>5, BoundsAssumption
  <2>4. \A s, t : ~Waits(q, s) /\ ~Before(q, s, t) /\ NoWdt(q)
    BY <1>5
  <2> QED BY <2>1, <2>2, <2>3, <2>4, Zenon
<1>7. ao["I2c"].pnc # 1
  BY <1>1 DEF QInv, Commanded, Booting, InitialEvent
<1>8. InUse' => prov /\ bmc' = "held"
  BY <1>2, <1>6 DEF InUse
<1>9. NoInterrupts' /\ Room' /\ Ordered' /\ Blocks'
  BY <1>2, <1>6 DEF QInv, NoInterrupts, Room, Ordered, Blocks, Inside
<1>10. Commanded' /\ Updating' /\ Unprovisioned'
  BY <1>2, <1>6, <1>7, <1>8 DEF Commanded, Updating, Unprovisioned, Inside
<1>11. HeldInUse' /\ Recovering' /\ LockdownHoldsBmc'
  BY <1>2, <1>8 DEF HeldInUse, Recovering, LockdownHoldsBmc
<1> QED
  BY <1>9, <1>10, <1>11 DEF QInv

\* run_idle dispatches the first event: what it leaves in the queue waited
\* behind it, so the blocks and the order of the updates stay as they are.
LEMMA IdleDispatchQ ==
  ASSUME IInv, QInv, IdleDispatch PROVE QInv'
<1> DEFINE h == Head(evq).state
           r == Tail(evq)
<1>1. /\ evq \in Seq(SmcEvent) /\ evq # <<>> /\ AtIdle /\ h # "INITIALIZE"
      /\ pc' = "run" /\ cur' = h /\ ctx'.ao = Head(evq).ao /\ evq' = r
      /\ UNCHANGED <<ao, prov, bmc, left>>
  BY Contexts DEF IdleDispatch
<1>2. /\ Len(r) = Len(evq) - 1 /\ Head(evq) \in SmcEvent
      /\ \A s : Waits(r, s) => Waits(evq, s) /\ Before(evq, h, s)
      /\ \A s, t : Before(r, s, t) => Before(evq, s, t)
      /\ NoWdt(evq) => NoWdt(r) /\ Head(evq).ao # "Wdt"
      /\ Waits(evq, h)
  BY <1>1, TailOrder
<1>3. \A s, t : Before(r, s, t) => Before(evq, s, t) /\ Before(evq, h, s) /\ Before(evq, h, t)
  BY <1>2, BeforeWaits
<1>4. h \in {"VERIFY", "RECOVERY", "UPDATE", "I2C"} /\ Len(evq) \in Nat
  BY <1>1, <1>2 DEF SmcEvent, Events
<1>5. cur = "UPDATE" => pc = "parent"
  BY <1>1 DEF AtIdle
<1>6. ao["I2c"].pnc = 1 => h = "I2C"
  BY <1>1 DEF QInv, Commanded, AtIdle
<1>7. ao["Update"].pnc \in {0, 1}
  BY Contexts
<1> HIDE DEF h, r
<1>8. NoInterrupts' /\ Room'
  BY <1>1, <1>2, <1>4, BoundsAssumption DEF QInv, NoInterrupts, Room
<1>9. Ordered' /\ Blocks'
  BY <1>1, <1>2, <1>3 DEF QInv, Ordered, Blocks, Inside
<1>10. Commanded'
  BY <1>1, <1>2, <1>6 DEF QInv, Commanded, Inside
<1>11. Updating'
  <2>1. ao["Update"].pnc = 1 => ~Before(r, "UPDATE", "VERIFY")
    BY <1>2 DEF QInv, Updating
  <2>2. ASSUME ao["Update"].pnc = 0, Waits(r, "UPDATE") PROVE h = "UPDATE"
    <3>1. cur = "UPDATE" /\ Before(evq, h, "UPDATE")
      BY <1>2, <2>2 DEF QInv, Updating
    <3>2. ~Before(evq, "VERIFY", "UPDATE") /\ ~Before(evq, "I2C", "UPDATE")
          /\ ~Before(evq, "RECOVERY", "UPDATE")
      BY <3>1 DEF QInv, Updating, Ordered
    <3> QED BY <1>4, <3>1, <3>2
  <2>3. ASSUME h = "UPDATE"
        PROVE  /\ ~Before(r, "VERIFY", "UPDATE") /\ ~Before(r, "VERIFY", "RECOVERY")
               /\ ~Before(r, "I2C", "UPDATE")
               /\ prov /\ ao["Update"].pnc = 0 => bmc = "held"
    <3>1. CASE ao["Update"].pnc = 0
      <4>1. cur = "UPDATE"
        BY <1>2, <2>3, <3>1 DEF QInv, Updating
      <4> QED BY <1>3, <1>5, <4>1 DEF QInv, Updating
    <3>2. CASE ao["Update"].pnc = 1
      <4>1. ~Before(evq, "UPDATE", "VERIFY") /\ ~Before(evq, "UPDATE", "I2C")
        BY <3>2 DEF QInv, Updating, Ordered, Events
      <4> QED BY <1>3, <2>3, <3>2, <4>1
    <3> QED BY <1>7, <3>1, <3>2
  <2> QED BY <1>1, <2>1, <2>2, <2>3 DEF Updating
<1>12. Unprovisioned'
  BY <1>1, <1>2 DEF QInv, Unprovisioned, InUse
<1>13. HeldInUse' /\ Recovering' /\ LockdownHoldsBmc'
  BY <1>1, <1>4 DEF QInv, HeldInUse, Recovering, LockdownHoldsBmc, InUse
<1> QED
  BY <1>8, <1>9, <1>10, <1>11, <1>12, <1>13 DEF QInv

\* A mailbox write in turn is the only event that waits, and comes from a BMC
\* whose object is not in use.
LEMMA I2cWriteQ ==
  ASSUME IInv, QInv, NEW c \in Commands, I2cWrite(c), left'.cmd < left.cmd => evq = <<>>
  PROVE  QInv'
<1>1. /\ left'.cmd < left.cmd /\ left'.bmcReset = left.bmcReset /\ left'.timeout = left.timeout
      /\ bmc = "released" /\ UNCHANGED <<cur, ctx, pc, res, bmc, prov>>
  BY DEF I2cWrite, IInv, TypeOK
<1>2. evq = <<>>
  BY <1>1
<1>3. ao'["Bmc"] = ao["Bmc"] /\ ao'["Update"] = ao["Update"]
  <2> DEFINE d == [ao["I2c"] EXCEPT !.pnc = 1, !.type = "I2C"]
  <2>1. "I2c" \in AOs /\ ao["I2c"] \in AoData
    BY Objects DEF IInv, AOs
  <2>2. d \in AoData
    BY <2>1 DEF AoData
  <2>3. ao' = [ao EXCEPT !["I2c"] = d]
    BY DEF I2cWrite
  <2> HIDE DEF d
  <2> QED BY <2>1, <2>2, <2>3, AoStore DEF IInv, AOs
<1>4. ~InUse /\ ~InUse'
  BY <1>1, <1>3 DEF QInv, HeldInUse, InUse
<1>5. /\ Len(evq') = 1 /\ evq' # <<>> /\ evq'[1].state = "I2C" /\ evq'[1].ao = "I2c"
      /\ Head(evq').state = "I2C"
  <2>1. evq' = Append(<<>>, [state |-> "I2C", ao |-> "I2c", ev |-> "I2c"])
    BY <1>2, ShortQueue, BoundsAssumption DEF I2cWrite, post_smc_action
  <2> QED BY <2>1
<1>6. /\ \A s : Waits(evq', s) => s = "I2C"
      /\ \A s, t : ~Before(evq', s, t)
      /\ NoWdt(evq')
  BY <1>5 DEF Waits, Before, NoWdt
<1>7. NoInterrupts' /\ Room' /\ Ordered' /\ Blocks'
  BY <1>1, <1>4, <1>5, <1>6, BoundsAssumption DEF QInv, NoInterrupts, Room, Ordered, Blocks, Inside
<1>8. Commanded' /\ Unprovisioned'
  BY <1>1, <1>4, <1>5, <1>6 DEF Commanded, Unprovisioned, Inside
<1>9. Updating'
  BY <1>1, <1>3, <1>6 DEF QInv, Updating
<1>10. HeldInUse' /\ Recovering' /\ LockdownHoldsBmc'
  BY <1>1, <1>3, <1>4 DEF QInv, HeldInUse, Recovering, LockdownHoldsBmc, InUse
<1> QED
  BY <1>7, <1>8, <1>9, <1>10 DEF QInv

-----------------------------------------------------------------------------
(* The theorems                                                            *)

\* One step of Next in which a command comes in its turn preserves QInv.
LEMMA NextQ ==
  ASSUME IInv, QInv, [Next]_vars, [left'.cmd < left.cmd => evq = <<>>]_vars PROVE QInv'
<1>1. CASE UNCHANGED vars
  BY <1>1, QuietStep DEF vars
<1>2. CASE MainThread
  <2>1. ASSUME UpdateReboot PROVE QInv'
    BY <2>1, RebootQ DEF UpdateReboot, QInv, NoInterrupts
  <2> QED
    BY <1>2, <2>1, IdleEmptyQ, IdleInitializeQ, IdleDispatchQ, VerifyBeginQ, VerifySucceedsQ,
       VerifyFailsQ, RecoverBeginQ, RecoverSucceedsQ, RecoverFailsQ, UpdateBeginQ, UpdateEndQ,
       UpdatePublishQ, RunI2cQ, RunLockdownQ DEF MainThread
<1>3. CASE Interrupt
  <2>1. left.bmcReset = 0 /\ left.timeout = 0
    BY DEF QInv, NoInterrupts
  <2>2. PICK c \in Commands : I2cWrite(c)
    BY <1>3, <2>1 DEF Interrupt, BmcReset, WdtTimeout
  <2>3. CASE UNCHANGED vars
    BY <1>1, <2>3
  <2>4. CASE left'.cmd < left.cmd => evq = <<>>
    BY <2>2, <2>4, I2cWriteQ
  <2> QED BY <2>3, <2>4
<1>4. CASE Environment
  <2>1. ASSUME Reset PROVE QInv'
    <3>1. left'.bmcReset = left.bmcReset /\ left'.timeout = left.timeout
      BY <2>1 DEF Reset, IInv, TypeOK
    <3> QED BY <2>1, <3>1, RebootQ DEF Reset, QInv, NoInterrupts
  <2>2. ASSUME NEW i \in Images, NEW r \in Regions, Corrupt(i, r) PROVE QInv'
    <3>1. left'.bmcReset = left.bmcReset /\ left'.timeout = left.timeout
      BY <2>2 DEF Corrupt, IInv, TypeOK
    <3> QED BY <2>2, <3>1, QuietStep DEF Corrupt
  <2> QED BY <1>4, <2>1, <2>2 DEF Environment
<1> QED
  BY <1>1, <1>2, <1>3, <1>4 DEF Next

\* QInv is an invariant of every behaviour in which commands come in their turn.
LEMMA QInvariance ==
  ASSUME MaxBmcReset = 0, MaxTimeout = 0
  PROVE  Spec /\ CommandsInTurn => []QInv
<1>1. Init => QInv
  BY InitQ
<1>2. IInv /\ QInv /\ [Next]_vars /\ [left'.cmd < left.cmd => evq = <<>>]_vars => QInv'
  BY NextQ
<1> QED
  BY <1>1, <1>2, Invariance, PTL DEF Spec, CommandsInTurn

\* LockDownPlatform is only ever reached with the BMC held, although it moves
\* no line itself: for any number of commands, corruptions, faulty writes and
\* resets, when no watchdog expires, the BMC does not reset itself and it
\* writes no command while an event waits.
THEOREM LockdownsHoldBmc ==
  ASSUME MaxBmcReset = 0, MaxTimeout = 0
  PROVE  Spec /\ CommandsInTurn => []LockdownHoldsBmc
<1>1. QInv => LockdownHoldsBmc
  BY DEF QInv
<1> QED
  BY <1>1, QInvariance, PTL

\* recover_image and update_firmware_image rewrite the BMC's active region only
\* while the BMC is held, in the same behaviours.
THEOREM RewritesHoldBmc ==
  ASSUME MaxBmcReset = 0, MaxTimeout = 0
  PROVE  Spec /\ CommandsInTurn => []RewriteHoldsBmc
<1>1. IInv /\ QInv => RewriteHoldsBmc
  <2>1. ASSUME IInv, QInv, pc = "recover", <<"BMC", "active">> \in res.writes PROVE bmc = "held"
    BY <2>1 DEF QInv, Recovering, HeldInUse
  <2>2. ASSUME IInv, pc = "update", <<"BMC", "active">> \in res.writes PROVE bmc = "held"
    BY <2>2 DEF IInv, UpdateHoldsBoth
  <2> QED BY <2>1, <2>2 DEF RewriteHoldsBmc
<1> QED
  BY <1>1, Invariance, QInvariance, PTL

-----------------------------------------------------------------------------
(* The length of the queue                                                 *)

\* The commands so far, and the places they give the queue.
Used == MaxCmd - left.cmd
Bound == IF Used = 0 THEN 4 ELSE IF Used = 1 THEN 9 ELSE 14

\* The recoveries that wait with context e, and whether e asks for a verification.
Recoveries(e) == Count(evq, Recovers(e))
Verifying(e) == ev[e].op \in {"VERIFY_ACTIVE", "VERIFY_BACKUP"}

\* A context has one recovery: none waits while it is made, and none waits where a
\* verification that may still fail would post another.
OneRecovery ==
  \A e \in {"Bmc0", "Bmc1"} :
    /\ Recoveries(e) <= 1
    /\ Inside("RECOVERY") /\ ctx.ev = e => Recoveries(e) = 0
    /\ Verifying(e) /\ Recoveries(e) # 0 =>
         ~Inside("VERIFY") /\ ~Before(evq, "VERIFY", "RECOVERY")

\* Only a verification fails.
Refuted == pc = "auth" /\ res.status = "Failure" => Verifying(ctx.ev)

\* The updates of one command wait at a time, and one command.
FewWait == Count(evq, Updates) <= 3 /\ Count(evq, Mails) <= 1

\* A command came when nothing waited: behind it are at most the two events that the
\* handler running then has posted.
Short ==
  ao["I2c"].pnc = 1 =>
    /\ Len(evq) <= 3
    /\ Inside("RECOVERY") \/ Inside("UPDATE") => Len(evq) <= 1
    /\ cur = "I2C" /\ pc = "run" => Len(evq) <= 2

\* Updates come from commands, and the first command finds the object of the
\* initial events done with.
FromCommands ==
  /\ cur = "IDLE" => ao["Update"].pnc # 1
  /\ Used = 0 => /\ ao["Update"].pnc # 1 /\ ao["I2c"].pnc # 1 /\ cur \notin {"UPDATE", "I2C"}
                 /\ ~Waits(evq, "UPDATE") /\ ~Waits(evq, "I2C")
  /\ Used <= 1 => /\ ao["Update"].pnc = 1 => ~InUse /\ ~Waits(evq, "RECOVERY")
                  /\ ao["I2c"].pnc = 1 => ~InUse
                  /\ cur = "UPDATE" => ao["I2c"].pnc # 1

\* There is a place for each event, for the two that an update turns into, for the
\* recovery a verification may post and, unless that recovery comes last, for the
\* two verifications a recovery turns into.
Filled == Len(evq) + Count(evq, Updates) + 2 * One(Inside("UPDATE"))
UpdatesFit == Filled + One(Inside("VERIFY")) <= Bound
RecoveriesFit ==
  ~Before(evq, "VERIFY", "RECOVERY") =>
    Filled + Recoveries("Bmc0") + Recoveries("Bmc1") + 2 * One(Inside("RECOVERY")) <= Bound

\* The inductive invariant of the length.
BInv == /\ OneRecovery /\ Refuted /\ FewWait /\ Short /\ FromCommands
        /\ UpdatesFit /\ RecoveriesFit

\* What the parts range over.
LEMMA BoundType ==
  ASSUME IInv, LInv
  PROVE  /\ Len(evq) \in Nat /\ \A S : Count(evq, S) \in Nat
         /\ \A e : Recoveries(e) \in Nat
         /\ Used \in Nat /\ Bound \in {4, 9, 14}
         /\ Used = 0 => Bound = 4
         /\ Used = 1 => Bound = 9
         /\ Used > 1 => Bound = 14
<1>1. Len(evq) \in Nat /\ \A S : Count(evq, S) \in Nat
  BY QuotaType DEF LInv
<1>2. Used \in Nat
  BY QuotaType DEF LInv, Counted, Used
<1> HIDE DEF Used
<1> QED BY <1>1, <1>2 DEF Recoveries, Bound

\* Where a handler is, as a number.
LEMMA InsideType == \A s : One(Inside(s)) \in {0, 1} /\ (Inside(s) <=> One(Inside(s)) = 1)
  BY DEF One

\* A kind of event that does not wait is not counted.
LEMMA AbsentCount ==
  ASSUME NEW q, NEW s, ~Waits(q, s), NEW e
  PROVE  Count(q, EventsOf(s, e)) = 0
<1>1. Places(q, Len(q), EventsOf(s, e)) = {}
  BY DEF Places, EventsOf, Waits
<1> QED BY <1>1, FS_EmptySet DEF Count, First

\* Without a verification what waits is counted.
LEMMA NoVerifyLength ==
  ASSUME NEW q \in Seq(Matched), NoWdt(q), ~Waits(q, "VERIFY")
  PROVE  Len(q) <= Count(q, Recovers("Bmc0")) + Count(q, Recovers("Bmc1"))
                   + Count(q, Updates) + Count(q, Mails)
<1>1. \A e : Count(q, Verifies(e)) = 0
  BY AbsentCount DEF Verifies
<1>2. Count(q, Recovers("Wdt")) = 0
  <2>1. Places(q, Len(q), Recovers("Wdt")) = {}
    BY DEF Places, Recovers, EventsOf, Matched, NoWdt
  <2> QED BY <2>1, FS_EmptySet DEF Count, First
<1>3. Len(q) \in Nat /\ \A S : Count(q, S) \in Nat
  BY CountType
<1> QED BY <1>1, <1>2, <1>3, LengthIsCounted

\* Two kinds that wait, wait in an order.
LEMMA OneWay ==
  ASSUME NEW q, NEW s, NEW t, s # t, Len(q) \in Nat, Waits(q, s), Waits(q, t)
  PROVE  Before(q, s, t) \/ Before(q, t, s)
<1>1. PICK j \in 1..Len(q) : q[j].state = s
  BY DEF Waits
<1>2. PICK k \in 1..Len(q) : q[k].state = t
  BY DEF Waits
<1>3. j < k \/ k < j
  BY <1>1, <1>2
<1> QED BY <1>1, <1>2, <1>3 DEF Before

\* What waits is the first event or waits behind it.
LEMMA HeadOrder ==
  ASSUME NEW q \in Seq(SmcEvent), q # <<>>
  PROVE  \A s, t : Before(q, s, t) =>
           Before(Tail(q), s, t) \/ (s = Head(q).state /\ Waits(Tail(q), t))
<1>1. /\ Len(Tail(q)) = Len(q) - 1 /\ Len(q) \in Nat /\ Len(q) >= 1 /\ Head(q) = q[1]
      /\ \A k \in 1..Len(Tail(q)) : Tail(q)[k] = q[k + 1]
  OBVIOUS
<1>2. ASSUME NEW s, NEW t, Before(q, s, t)
      PROVE  Before(Tail(q), s, t) \/ (s = Head(q).state /\ Waits(Tail(q), t))
  <2>1. PICK j \in 1..Len(q), k \in 1..Len(q) : j < k /\ q[j].state = s /\ q[k].state = t
    BY <1>2 DEF Before
  <2>2. k - 1 \in 1..Len(Tail(q)) /\ Tail(q)[k - 1].state = t
    <3>1. k - 1 \in 1..Len(Tail(q)) /\ (k - 1) + 1 = k
      BY <1>1, <2>1
    <3> QED BY <1>1, <2>1, <3>1
  <2>3. CASE j = 1
    BY <1>1, <2>1, <2>2, <2>3 DEF Waits
  <2>4. CASE j # 1
    <3>1. j - 1 \in 1..Len(Tail(q)) /\ (j - 1) + 1 = j /\ j - 1 < k - 1
      BY <1>1, <2>1, <2>4
    <3>2. Tail(q)[j - 1].state = s
      BY <1>1, <2>1, <3>1
    <3> QED BY <2>2, <3>1, <3>2 DEF Before
  <2> QED BY <2>3, <2>4
<1> QED BY <1>2

\* A recovery that is posted comes after every event that waits.
LEMMA RecoveryLast ==
  ASSUME NEW q \in Seq(Matched), Len(q) < QMax, Waits(q, "VERIFY"), NEW a, NEW e
  PROVE  Before(post_smc_action(q, "RECOVERY", a, e), "VERIFY", "RECOVERY")
<1> DEFINE x == [state |-> "RECOVERY", ao |-> a, ev |-> e]
           r == Append(q, x)
<1>1. post_smc_action(q, "RECOVERY", a, e) = r
  BY DEF post_smc_action
<1>2. PICK j \in 1..Len(q) : q[j].state = "VERIFY"
  BY DEF Waits
<1>3. x.state = "RECOVERY"
  OBVIOUS
<1> HIDE DEF x
<1>4. /\ Len(r) = Len(q) + 1 /\ Len(q) \in Nat /\ r[Len(q) + 1] = x /\ r[j] = q[j]
      /\ j \in 1..Len(r) /\ Len(q) + 1 \in 1..Len(r) /\ j < Len(q) + 1
  OBVIOUS
<1> HIDE DEF r
<1>5. Before(r, "VERIFY", "RECOVERY")
  BY <1>2, <1>3, <1>4 DEF Before
<1> QED BY <1>1, <1>5

\* A step that leaves the queue and the contexts alone, enters no handler and gives
\* no object anything to process preserves the invariant.
LEMMA QuietB ==
  ASSUME IInv, LInv, BInv, evq' = evq, ev' = ev, left'.cmd = left.cmd, Refuted',
         cur' \in {cur, "LOCKDOWN"}, pc = "parent" => pc' = "parent",
         pc' = "run" => pc = "run" \/ cur' = "LOCKDOWN",
         cur' = "LOCKDOWN" \/ ctx' = ctx,
         \A a \in {"Bmc", "Update", "I2c"} : ao'[a].pnc = 1 => ao[a].pnc = 1
  PROVE  BInv'
<1>1. Used' = Used /\ Bound' = Bound
  BY DEF Used, Bound
<1>2. Inside("VERIFY")' => Inside("VERIFY")
  BY DEF Inside
<1>3. /\ Inside("RECOVERY")' => Inside("RECOVERY") /\ ctx' = ctx
      /\ Inside("UPDATE")' => Inside("UPDATE")
  BY DEF Inside
<1>4. /\ InUse' => InUse
      /\ ao'["Update"].pnc = 1 => ao["Update"].pnc = 1
      /\ ao'["I2c"].pnc = 1 => ao["I2c"].pnc = 1
  BY DEF InUse
<1>5. OneRecovery'
  BY <1>2, <1>3 DEF BInv, OneRecovery, Recoveries, Verifying
<1>6. FewWait'
  BY DEF BInv, FewWait
<1>7. Short'
  BY <1>3, <1>4 DEF BInv, Short
<1>8. FromCommands'
  BY <1>1, <1>4 DEF BInv, FromCommands
<1>9. /\ One(Inside("VERIFY")') <= One(Inside("VERIFY"))
      /\ One(Inside("RECOVERY")') <= One(Inside("RECOVERY"))
      /\ One(Inside("UPDATE")') <= One(Inside("UPDATE"))
      /\ \A s : One(Inside(s)) \in {0, 1} /\ One(Inside(s)') \in {0, 1}
  BY <1>2, <1>3 DEF One
<1>10. UpdatesFit' /\ RecoveriesFit'
  <2>1. /\ Filled = Len(evq) + Count(evq, Updates) + 2 * One(Inside("UPDATE"))
        /\ Filled' = Len(evq) + Count(evq, Updates) + 2 * One(Inside("UPDATE")')
    BY DEF Filled
  <2>2. Filled' <= Filled /\ Filled \in Nat /\ Filled' \in Nat
    BY <1>9, <2>1, BoundType
  <2>3. Bound \in Nat /\ Recoveries("Bmc0") \in Nat /\ Recoveries("Bmc1") \in Nat
    BY BoundType
  <2>4. Recoveries("Bmc0")' = Recoveries("Bmc0") /\ Recoveries("Bmc1")' = Recoveries("Bmc1")
    BY DEF Recoveries
  <2>5. UpdatesFit'
    BY <1>1, <1>9, <2>2, <2>3 DEF BInv, UpdatesFit
  <2>6. RecoveriesFit'
    BY <1>1, <1>9, <2>2, <2>3, <2>4 DEF BInv, RecoveriesFit
  <2> QED BY <2>5, <2>6
<1> QED BY <1>5, <1>6, <1>7, <1>8, <1>10 DEF BInv

\* run_verify up to the authentication: what does not authenticate was verified.
LEMMA VerifyBeginB == ASSUME IInv, LInv, QInv, BInv, VerifyBegin PROVE BInv'
<1>1. /\ cur = "VERIFY" /\ pc = "run" /\ pc' \in {"auth", "parent"}
      /\ UNCHANGED <<cur, ctx, evq, ao, ev, left>>
  BY DEF VerifyBegin
<1>2. Refuted'
  <2> SUFFICES ASSUME pc' = "auth", res'.status = "Failure" PROVE Verifying(ctx.ev)
    BY <1>1 DEF Refuted, Verifying
  <2>1. res' = authentication_image(ctx.ev)
    BY DEF VerifyBegin
  <2>2. \A st : Untouched(st, flash).status = st
    BY DEF Untouched, Outcome
  <2> QED BY <2>1, <2>2 DEF authentication_image, Verifying
<1> QED BY <1>1, <1>2, QuietB

\* handlePostVerifySuccess posts nothing.
LEMMA VerifySucceedsB == ASSUME IInv, LInv, QInv, BInv, VerifySucceeds PROVE BInv'
<1>1. /\ cur = "VERIFY" /\ pc = "auth" /\ pc' = "parent"
      /\ UNCHANGED <<cur, ctx, evq, ev, left>>
  BY DEF VerifySucceeds, IInv, Handling
<1>2. ctx.ao = "Bmc" /\ "Bmc" \in AOs /\ "Update" \in AOs /\ "I2c" \in AOs
  BY <1>1, Contexts
<1>3. PICK x \in AoData : ao' = [ao EXCEPT !["Bmc"] = x] /\ (x.pnc = 1 => ao["Bmc"].pnc = 1)
  <2> DEFINE d == Verified(ao["Bmc"], ctx.ev, "Success")
  <2>1. d \in AoData /\ d.pnc = ao["Bmc"].pnc
    BY <1>2, VerifiedType, Objects DEF IInv, Status
  <2> DEFINE f == [d EXCEPT !.pnc = 0]
  <2>2. f \in AoData /\ f.pnc = 0
    BY <2>1 DEF AoData
  <2>3. \E x \in {d, f} : ao' = [ao EXCEPT !["Bmc"] = x]
    BY <1>2 DEF VerifySucceeds
  <2>4. PICK x \in {d, f} : ao' = [ao EXCEPT !["Bmc"] = x]
    BY <2>3, Zenon
  <2> HIDE DEF d, f
  <2>5. x \in AoData /\ (x.pnc = 1 => ao["Bmc"].pnc = 1)
    BY <2>1, <2>2
  <2> QED BY <2>4, <2>5
<1>4. ao'["Bmc"] = x /\ ao'["I2c"] = ao["I2c"] /\ ao'["Update"] = ao["Update"]
  BY <1>2, <1>3, AoStore DEF IInv
<1>5. Refuted'
  BY <1>1 DEF Refuted
<1> QED BY <1>1, <1>3, <1>4, <1>5, QuietB

\* run_recovery up to the flash work posts nothing.
LEMMA RecoverBeginB == ASSUME IInv, LInv, QInv, BInv, RecoverBegin PROVE BInv'
<1>1. /\ cur = "RECOVERY" /\ pc = "run" /\ pc' = "recover"
      /\ UNCHANGED <<cur, ctx, evq, ao, ev>>
  BY DEF RecoverBegin
<1>2. left'.cmd = left.cmd
  BY DEF RecoverBegin, Spend, IInv, TypeOK
<1>3. Refuted'
  BY <1>1 DEF Refuted
<1> QED BY <1>1, <1>2, <1>3, QuietB

\* handlePostRecoveryFailure posts nothing.
LEMMA RecoverFailsB == ASSUME IInv, LInv, QInv, BInv, RecoverFails PROVE BInv'
<1>1. /\ cur = "RECOVERY" /\ pc = "recover" /\ UNCHANGED <<evq, ev, left>>
      /\ \/ cur' = "LOCKDOWN" /\ pc' = "run"
         \/ cur' = cur /\ ctx' = ctx /\ pc' = "parent"
  BY DEF RecoverFails, IInv, Handling
<1>2. ctx.ao = "Bmc" /\ "Bmc" \in AOs /\ "Update" \in AOs /\ "I2c" \in AOs /\ ao["Bmc"] \in AoData
  BY <1>1, Contexts, Objects DEF IInv
<1>3. /\ ao'["I2c"] = ao["I2c"] /\ ao'["Update"] = ao["Update"]
      /\ ao'["Bmc"].pnc = 1 => ao["Bmc"].pnc = 1
  <2> DEFINE locked == [ao["Bmc"] EXCEPT !.lockdown = 1, !.pnc = 0]
             freed == [ao["Bmc"] EXCEPT !.pnc = 0]
  <2>1. locked \in AoData /\ freed \in AoData /\ locked.pnc = 0 /\ freed.pnc = 0
    BY <1>2 DEF AoData
  <2>2. ao' = ao \/ ao' = [ao EXCEPT !["Bmc"] = locked] \/ ao' = [ao EXCEPT !["Bmc"] = freed]
    BY <1>2 DEF RecoverFails
  <2> HIDE DEF locked, freed
  <2> QED BY <1>2, <2>1, <2>2, AoStore DEF IInv
<1>4. Refuted'
  BY <1>1 DEF Refuted
<1> QED BY <1>1, <1>3, <1>4, QuietB

\* handle_update_image_action posts nothing before the update has ended.
LEMMA UpdateBeginB == ASSUME IInv, LInv, QInv, BInv, UpdateBegin PROVE BInv'
<1>1. /\ cur = "UPDATE" /\ pc = "run" /\ pc' = "update"
      /\ UNCHANGED <<cur, ctx, evq, ao, ev>>
  BY DEF UpdateBegin
<1>2. left'.cmd = left.cmd
  BY DEF UpdateBegin, Spend, IInv, TypeOK
<1>3. Refuted'
  BY <1>1 DEF Refuted
<1> QED BY <1>1, <1>2, <1>3, QuietB

\* Nor does its end.
LEMMA UpdateEndB == ASSUME IInv, LInv, QInv, BInv, UpdateEnd PROVE BInv'
<1>1. /\ cur = "UPDATE" /\ pc = "update" /\ pc' = "publish"
      /\ UNCHANGED <<cur, ctx, evq, ev, left>>
  BY DEF UpdateEnd, IInv, Handling
<1>2. ctx.ao = "Update" /\ "Update" \in AOs /\ "I2c" \in AOs /\ "Bmc" \in AOs
  BY <1>1, Contexts
<1>3. ao'["Bmc"] = ao["Bmc"] /\ ao'["I2c"] = ao["I2c"] /\ ao'["Update"].pnc = 0
  <2> DEFINE d == [ao["Update"] EXCEPT !.pnc = 0]
  <2>1. d \in AoData /\ d.pnc = 0
    BY <1>2, Objects DEF AoData, IInv
  <2>2. ao' = [ao EXCEPT !["Update"] = d]
    BY <1>2 DEF UpdateEnd
  <2> HIDE DEF d
  <2> QED BY <1>2, <2>1, <2>2, AoStore DEF IInv
<1>4. Refuted'
  BY <1>1 DEF Refuted
<1> QED BY <1>1, <1>3, <1>4, QuietB

\* run_lockdown marks the object and nothing else.
LEMMA RunLockdownB == ASSUME IInv, LInv, QInv, BInv, RunLockdown PROVE BInv'
<1>1. cur = "LOCKDOWN" /\ UNCHANGED <<cur, ctx, pc, res, evq, ev, left>>
  BY DEF RunLockdown
<1>2. \A a \in AOs : ao'[a].pnc = ao[a].pnc
  <2>1. ao \in [AOs -> AoData] /\ ao' = [ao EXCEPT ![ctx.ao] = [@ EXCEPT !.lockdown = 1]]
    BY DEF RunLockdown, IInv, TypeOK
  <2>2. \A d \in AoData : [d EXCEPT !.lockdown = 1].pnc = d.pnc
    BY DEF AoData
  <2> QED BY <2>1, <2>2
<1>3. \A a \in {"Bmc", "Update", "I2c"} : ao'[a].pnc = 1 => ao[a].pnc = 1
  BY <1>2 DEF AOs
<1>4. Refuted'
  BY <1>1 DEF Refuted, BInv, Verifying
<1> QED BY <1>1, <1>3, <1>4, QuietB

\* Damage and stuttering touch neither queue nor objects.
LEMMA StillB ==
  ASSUME IInv, LInv, BInv, UNCHANGED <<cur, ctx, pc, res, evq, ao, ev>>, left'.cmd = left.cmd
  PROVE  BInv'
<1>1. Refuted'
  BY DEF Refuted, BInv, Verifying
<1> QED BY <1>1, QuietB

\* handlePostVerifyFailure: the recovery takes the place of its verification, and
\* comes last when another verification waits.
LEMMA VerifyFailsB == ASSUME IInv, LInv, QInv, BInv, VerifyFails PROVE BInv'
<1>1. /\ cur = "VERIFY" /\ pc = "auth" /\ pc' = "parent" /\ res.status = "Failure"
      /\ UNCHANGED <<cur, ctx, left>>
  BY DEF VerifyFails, IInv, Handling
<1>2. /\ ctx.ao = "Bmc" /\ ctx.ev \in {"Bmc0", "Bmc1"} /\ "Bmc" \in AOs /\ "Update" \in AOs
      /\ "I2c" \in AOs /\ ctx.ev \in Evs
  BY <1>1, Contexts DEF Evs
<1> DEFINE d == Verified(ao["Bmc"], ctx.ev, "Failure")
<1>3. d \in AoData /\ d.pnc = ao["Bmc"].pnc
  BY <1>2, VerifiedType, Objects DEF IInv, Status
<1>4. PICK x \in AoData : x.pnc = ao["Bmc"].pnc /\ ao' = [ao EXCEPT !["Bmc"] = x]
  <2>1. [d EXCEPT !.prev = "Verify"] \in AoData /\ [d EXCEPT !.prev = "Verify"].pnc = d.pnc
    BY <1>3 DEF AoData
  <2> QED BY <1>2, <1>3, <2>1 DEF VerifyFails
<1>5. ao'["Bmc"].pnc = ao["Bmc"].pnc /\ ao'["I2c"] = ao["I2c"] /\ ao'["Update"] = ao["Update"]
  BY <1>2, <1>4, AoStore DEF IInv
<1>6. Refuted'
  BY <1>1 DEF Refuted
<1>7. CASE ~InUse
  <2>1. UNCHANGED <<evq, ev>>
    BY <1>2, <1>3, <1>7 DEF VerifyFails, InUse
  <2> QED BY <1>1, <1>5, <1>6, <2>1, QuietB
<1>8. CASE InUse
  <2> DEFINE e == ctx.ev
  <2>1. /\ evq' = post_smc_action(evq, "RECOVERY", "Bmc", e)
        /\ ev' = [ev EXCEPT ![e] = [@ EXCEPT !.op = "RECOVER_ACTIVE"]]
    BY <1>2, <1>3, <1>8 DEF VerifyFails, InUse
  <2>2. evq \in Seq(Matched) /\ Len(evq) \in Nat /\ Len(evq) < QMax
    BY <1>1, <1>8, HandlerRuns DEF QInv, Room
  <2> DEFINE y == [state |-> "RECOVERY", ao |-> "Bmc", ev |-> e]
  <2>3. evq' = Append(evq, y)
    BY <2>1, <2>2 DEF post_smc_action
  <2>4. y \in Matched /\ e \in Chains
    BY <1>2 DEF Matched, Chains
  <2>5. \A S : Count(evq', S) = Count(evq, S) + One(y \in S) /\ Count(evq, S) \in Nat
    <3> HIDE DEF y
    <3> QED BY <2>2, <2>3, <2>4, CountAppend, CountType
  <2>6. /\ y \notin Updates /\ y \notin Mails
        /\ \A c \in Chains : y \in Recovers(c) <=> c = e
    BY <2>4, Kinds
  <2>7. /\ Count(evq', Updates) = Count(evq, Updates) /\ Count(evq', Mails) = Count(evq, Mails)
        /\ \A c \in {"Bmc0", "Bmc1"} : Recoveries(c)' = Recoveries(c) + One(c = e)
        /\ Len(evq') = Len(evq) + 1
    <3>1. Len(evq') = Len(evq) + 1
      BY <2>2, <2>3
    <3> HIDE DEF y, e
    <3> QED BY <2>5, <2>6, <3>1 DEF One, Recoveries, Chains
  <2>8. Recoveries(e) = 0 /\ Verifying(e)
    BY <1>1, <1>2 DEF BInv, Refuted, OneRecovery, Inside
  <2>9. \A s : ~Inside(s)'
    BY <1>1 DEF Inside
  <2>10. [state |-> "RECOVERY", ao |-> "Bmc", ev |-> e] \in SmcEvent
    BY <1>2 DEF SmcEvent, Events, AOs, Evs
  <2>11. \A s : Waits(evq', s) => Waits(evq, s) \/ s = "RECOVERY"
    BY <2>1, <2>10, PostOrder, Contexts
  <2>12. ao["I2c"].pnc # 1
    BY <1>1, <1>8 DEF QInv, Commanded, Inside
  <2>13. Used' = Used /\ Bound' = Bound /\ InUse'
    BY <1>1, <1>5, <1>8 DEF Used, Bound, InUse
  <2>14. OneRecovery'
    <3> SUFFICES ASSUME NEW c \in {"Bmc0", "Bmc1"}
                 PROVE  Recoveries(c)' <= 1 /\ (Verifying(c)' => Recoveries(c)' = 0)
      BY <2>9 DEF OneRecovery
    <3>1. CASE c = e
      <4>1. Recoveries(c)' = 1
        BY <2>7, <2>8, <3>1 DEF One
      <4>2. ~Verifying(c)'
        <5>1. ev'[e].op = "RECOVER_ACTIVE"
          BY <1>2, <2>1, Objects DEF IInv, TypeOK, EventContext
        <5> QED BY <3>1, <5>1 DEF Verifying
      <4> QED BY <4>1, <4>2
    <3>2. CASE c # e
      <4>1. Recoveries(c)' = Recoveries(c) /\ Recoveries(c) \in Nat
        BY <2>7, <3>2, BoundType DEF One
      <4>2. ev'[c] = ev[c]
        BY <2>1, <3>2 DEF IInv, TypeOK, Evs
      <4>3. Inside("VERIFY")
        BY <1>1 DEF Inside
      <4> QED BY <4>1, <4>2, <4>3 DEF BInv, OneRecovery, Verifying
    <3> QED BY <3>1, <3>2
  <2>15. FewWait' /\ Short'
    BY <1>5, <2>7, <2>12 DEF BInv, FewWait, Short
  <2>16. FromCommands'
    BY <1>1, <1>5, <1>8, <2>11, <2>12, <2>13 DEF BInv, FromCommands
  <2>17. Filled' = Len(evq) + 1 + Count(evq, Updates) /\ \A s : One(Inside(s)') = 0
    BY <2>2, <2>5, <2>7, <2>9 DEF Filled, One
  <2>18. UpdatesFit'
    <3>1. Filled + One(Inside("VERIFY")) <= Bound /\ One(Inside("VERIFY")) = 1
      BY <1>1 DEF BInv, UpdatesFit, Inside, One
    <3>2. Filled = Len(evq) + Count(evq, Updates)
      BY <1>1, <2>2, <2>5 DEF Filled, Inside, One
    <3> QED BY <2>2, <2>5, <2>13, <2>17, <3>1, <3>2, BoundType DEF UpdatesFit
  <2>19. RecoveriesFit'
    <3>1. CASE Waits(evq, "VERIFY")
      BY <2>1, <2>2, <3>1, RecoveryLast DEF RecoveriesFit
    <3>2. CASE ~Waits(evq, "VERIFY")
      <4> DEFINE r == Recoveries("Bmc0") + Recoveries("Bmc1")
                 u == Count(evq, Updates)
                 i == Count(evq, Mails)
      <4>1. r \in 0..1 /\ u \in 0..3 /\ i \in 0..1
        BY <1>2, <2>5, <2>8, BoundType DEF BInv, OneRecovery, FewWait
      <4>2. Len(evq) <= r + u + i
        BY <2>2, <3>2, NoVerifyLength DEF QInv, NoInterrupts, Recoveries
      <4>3. Used = 0 => u = 0 /\ i = 0
        BY AbsentCount DEF BInv, FromCommands, Updates, Mails
      <4>4. Used = 1 => u = 0
        <5>1. Used = 1 => ao["Update"].pnc # 1
          BY <1>8 DEF BInv, FromCommands
        <5>2. ao["Update"].pnc # 1 => ~Waits(evq, "UPDATE")
          BY <1>1, Contexts DEF QInv, Updating
        <5> QED BY <5>1, <5>2, AbsentCount DEF Updates
      <4>5. Recoveries("Bmc0")' + Recoveries("Bmc1")' = r + 1
        <5>1. /\ Recoveries("Bmc0")' = Recoveries("Bmc0") + One("Bmc0" = e)
              /\ Recoveries("Bmc1")' = Recoveries("Bmc1") + One("Bmc1" = e)
          BY <2>7
        <5>2. One("Bmc0" = e) + One("Bmc1" = e) = 1
          BY <1>2 DEF One
        <5>3. One("Bmc0" = e) \in {0, 1} /\ One("Bmc1" = e) \in {0, 1}
          BY DEF One
        <5> HIDE DEF e
        <5> QED BY <5>1, <5>2, <5>3, BoundType
      <4>6. Len(evq) + 1 + u + (r + 1) <= Bound
        <5> HIDE DEF r, u, i
        <5>1. Len(evq) + 1 + u + (r + 1) <= 4 + 2 * u + i
          BY <2>2, <4>1, <4>2
        <5>2. 4 + 2 * u + i <= Bound
          BY <4>1, <4>3, <4>4, BoundType
        <5> QED BY <2>2, <4>1, <5>1, <5>2, BoundType
      <4>7. Recoveries("Bmc0")' \in Nat /\ Recoveries("Bmc1")' \in Nat
        BY <2>7, BoundType DEF One
      <4>8. Filled' + Recoveries("Bmc0")' + Recoveries("Bmc1")' <= Bound
        <5> HIDE DEF r
        <5> QED BY <2>2, <2>17, <4>1, <4>5, <4>6, <4>7
      <4>9. 2 * One(Inside("RECOVERY")') = 0 /\ Filled' \in Nat
        BY <2>2, <2>5, <2>17
      <4> QED BY <2>13, <4>7, <4>8, <4>9 DEF RecoveriesFit
    <3> QED BY <3>1, <3>2
  <2> QED BY <1>6, <2>14, <2>15, <2>16, <2>18, <2>19 DEF BInv
<1> QED BY <1>7, <1>8

\* One or two verifications posted.
LEMMA VerifiesPosted ==
  ASSUME NEW q \in Seq(Matched), NEW e \in {"Bmc0", "Bmc1"}, NEW f \in {"Bmc0", "Bmc1"},
         NEW once, once = q \/ once = post_smc_action(q, "VERIFY", "Bmc", e),
         NEW r, r = post_smc_action(once, "VERIFY", "Bmc", f)
  PROVE  /\ r \in Seq(Matched) /\ Len(r) <= Len(q) + 2
         /\ Count(r, Updates) = Count(q, Updates) /\ Count(r, Mails) = Count(q, Mails)
         /\ \A c \in {"Bmc0", "Bmc1"} : Count(r, Recovers(c)) = Count(q, Recovers(c))
         /\ \A s : Waits(r, s) => Waits(q, s) \/ s = "VERIFY"
         /\ \A s, t : Before(r, s, t) => Before(q, s, t) \/ t = "VERIFY"
<1>1. ASSUME NEW p \in Seq(Matched), NEW g \in {"Bmc0", "Bmc1"},
             NEW n, n = post_smc_action(p, "VERIFY", "Bmc", g)
      PROVE  /\ n \in Seq(Matched) /\ Len(n) <= Len(p) + 1
             /\ Count(n, Updates) = Count(p, Updates) /\ Count(n, Mails) = Count(p, Mails)
             /\ \A c \in {"Bmc0", "Bmc1"} : Count(n, Recovers(c)) = Count(p, Recovers(c))
             /\ \A s : Waits(n, s) => Waits(p, s) \/ s = "VERIFY"
             /\ \A s, t : Before(n, s, t) => Before(p, s, t) \/ t = "VERIFY"
  <2>1. /\ [state |-> "VERIFY", ao |-> "Bmc", ev |-> g] \in Matched /\ g \in Chains
        /\ {"Bmc0", "Bmc1"} \subseteq Chains
    BY DEF Matched, Chains
  <2>2. [state |-> "VERIFY", ao |-> "Bmc", ev |-> g] \in SmcEvent /\ p \in Seq(SmcEvent)
    BY <2>1, MatchedType
  <2>3. /\ n \in Seq(Matched)
        /\ Count(n, Updates) = Count(p, Updates) /\ Count(n, Mails) = Count(p, Mails)
        /\ \A c \in Chains : Count(n, Recovers(c)) = Count(p, Recovers(c))
    BY <1>1, <2>1, VerifyPosted
  <2>4. /\ Len(n) <= Len(p) + 1
        /\ \A s : Waits(n, s) => Waits(p, s) \/ s = "VERIFY"
        /\ \A s, t : Before(n, s, t) => Before(p, s, t) \/ (t = "VERIFY" /\ Waits(p, s))
    BY <1>1, <2>2, PostOrder
  <2> QED BY <2>1, <2>3, <2>4
<1>2. /\ once \in Seq(Matched) /\ Len(once) <= Len(q) + 1
      /\ Count(once, Updates) = Count(q, Updates) /\ Count(once, Mails) = Count(q, Mails)
      /\ \A c \in {"Bmc0", "Bmc1"} : Count(once, Recovers(c)) = Count(q, Recovers(c))
      /\ \A s : Waits(once, s) => Waits(q, s) \/ s = "VERIFY"
      /\ \A s, t : Before(once, s, t) => Before(q, s, t) \/ t = "VERIFY"
  <2>1. CASE once = q
    BY <2>1
  <2>2. CASE once = post_smc_action(q, "VERIFY", "Bmc", e)
    BY <1>1, <2>2
  <2> QED BY <2>1, <2>2
<1>3. /\ r \in Seq(Matched) /\ Len(r) <= Len(once) + 1
      /\ Count(r, Updates) = Count(once, Updates) /\ Count(r, Mails) = Count(once, Mails)
      /\ \A c \in {"Bmc0", "Bmc1"} : Count(r, Recovers(c)) = Count(once, Recovers(c))
      /\ \A s : Waits(r, s) => Waits(once, s) \/ s = "VERIFY"
      /\ \A s, t : Before(r, s, t) => Before(once, s, t) \/ t = "VERIFY"
  BY <1>1, <1>2
<1>4. Len(r) <= Len(q) + 2
  BY <1>2, <1>3
<1> QED BY <1>2, <1>3, <1>4

\* While a recovery or an update is made there are places for two more events.
LEMMA TwoPlaces ==
  ASSUME IInv, LInv, BInv, Inside("RECOVERY") \/ Inside("UPDATE"),
         ~Before(evq, "VERIFY", "RECOVERY")
  PROVE  Len(evq) + Count(evq, Updates) + 2 + (Recoveries("Bmc0") + Recoveries("Bmc1")) <= Bound
<1> DEFINE r0 == Recoveries("Bmc0")
           r1 == Recoveries("Bmc1")
           o == One(Inside("RECOVERY"))
           p == One(Inside("UPDATE"))
<1>1. Filled + r0 + r1 + 2 * o <= Bound
  BY DEF BInv, RecoveriesFit
<1>2. Filled = Len(evq) + Count(evq, Updates) + 2 * p
  BY DEF Filled
<1>3. o + p = 1
  BY DEF Inside, One
<1>4. o \in {0, 1} /\ p \in {0, 1}
  BY InsideType
<1>5. /\ r0 \in Nat /\ r1 \in Nat /\ Bound \in Nat
      /\ Len(evq) \in Nat /\ Count(evq, Updates) \in Nat
  BY BoundType
<1> HIDE DEF r0, r1, o, p
<1>6. Len(evq) + Count(evq, Updates) + 2 + (r0 + r1) <= Bound
  BY <1>1, <1>2, <1>3, <1>4, <1>5, SMTT(40)
<1> QED BY <1>6 DEF r0, r1

\* A recovery or an update that ends has a place for the two verifications it posts.
LEMMA PostedB ==
  ASSUME IInv, LInv, QInv, BInv, UNCHANGED <<cur, ctx>>, pc' = "parent", left'.cmd = left.cmd,
         Inside("RECOVERY") \/ Inside("UPDATE"), ~Before(evq, "VERIFY", "RECOVERY"),
         Len(evq') \in Nat,
         ao'["I2c"].pnc = ao["I2c"].pnc, ao'["Update"].pnc = ao["Update"].pnc,
         InUse' => InUse \/ (cur = "UPDATE" /\ ao["Update"].pnc # 1),
         Len(evq') <= Len(evq) + 2,
         Count(evq', Updates) = Count(evq, Updates), Count(evq', Mails) = Count(evq, Mails),
         \A c \in {"Bmc0", "Bmc1"} : Count(evq', Recovers(c)) = Count(evq, Recovers(c)),
         \A s : Waits(evq', s) => Waits(evq, s) \/ s = "VERIFY",
         \A s, t : Before(evq', s, t) => Before(evq, s, t) \/ t = "VERIFY"
  PROVE  BInv'
<1>1. cur \in {"RECOVERY", "UPDATE"} /\ \A s : ~Inside(s)'
  BY DEF Inside
<1>2. Used' = Used /\ Bound' = Bound
  BY DEF Used, Bound
<1>3. ~Before(evq', "VERIFY", "RECOVERY")
  OBVIOUS
<1>4. \A c \in {"Bmc0", "Bmc1"} : Recoveries(c)' = Recoveries(c)
  BY DEF Recoveries
<1>5. OneRecovery'
  BY <1>1, <1>3, <1>4 DEF BInv, OneRecovery
<1>6. Refuted' /\ FewWait'
  BY DEF Refuted, BInv, FewWait
<1>7. Len(evq) \in Nat /\ \A S : Count(evq, S) \in Nat
  BY BoundType
<1>8. Short'
  <2>1. ao["I2c"].pnc = 1 => Len(evq) <= 1
    BY DEF BInv, Short
  <2>2. ao["I2c"].pnc = 1 => Len(evq') <= 3
    BY <1>7, <2>1
  <2> QED BY <1>1, <2>2 DEF Short
<1>9. FromCommands'
  BY <1>1, <1>2 DEF BInv, FromCommands
<1>10. UpdatesFit' /\ RecoveriesFit'
  <2> DEFINE rec == Recoveries("Bmc0") + Recoveries("Bmc1")
  <2>1. rec \in Nat /\ Bound \in Nat
    BY BoundType, SMTT(40)
  <2>2. Len(evq) + Count(evq, Updates) + 2 + rec <= Bound
    BY TwoPlaces
  <2>3. \A s : One(Inside(s)') = 0
    BY <1>1 DEF One
  <2>4. Filled' = Len(evq') + Count(evq, Updates)
    BY <1>7, <2>3 DEF Filled
  <2>5. Recoveries("Bmc0")' + Recoveries("Bmc1")' = rec
    BY <1>4
  <2>6. Recoveries("Bmc0")' \in Nat /\ Recoveries("Bmc1")' \in Nat
    BY <1>4, BoundType
  <2> HIDE DEF rec
  <2>7. UpdatesFit'
    BY <1>2, <1>7, <2>1, <2>2, <2>3, <2>4 DEF UpdatesFit
  <2>8. RecoveriesFit'
    <3>1. Len(evq') + Count(evq, Updates) + rec <= Bound
      BY <1>7, <2>1, <2>2
    <3>2. Filled' + Recoveries("Bmc0")' + Recoveries("Bmc1")' + 2 * 0 <= Bound
      BY <1>7, <2>1, <2>4, <2>5, <2>6, <3>1, SMTT(40)
    <3> QED BY <1>2, <2>3, <3>2 DEF RecoveriesFit
  <2> QED BY <2>7, <2>8
<1> QED BY <1>5, <1>6, <1>8, <1>9, <1>10 DEF BInv

\* handlePostRecoverySuccess: the recovery has a place for the verifications.
LEMMA RecoverSucceedsB == ASSUME IInv, IInv', LInv, QInv, BInv, RecoverSucceeds PROVE BInv'
<1>1. cur = "RECOVERY" /\ pc = "recover" /\ pc' = "parent" /\ UNCHANGED <<cur, ctx, left>>
  BY DEF RecoverSucceeds, IInv, Handling
<1>2. /\ ctx.ao = "Bmc" /\ ctx.ev \in {"Bmc0", "Bmc1"} /\ "Bmc" \in AOs /\ "I2c" \in AOs
      /\ "Update" \in AOs /\ ao["Bmc"] \in AoData
  BY <1>1, Contexts, Objects DEF IInv
<1>3. ao'["Bmc"].pnc = ao["Bmc"].pnc /\ ao'["I2c"] = ao["I2c"] /\ ao'["Update"] = ao["Update"]
  <2> DEFINE x == [ao["Bmc"] EXCEPT !.prev = "Recovery",
                     !.active = IF res.status = "VerifyActive" THEN "Success" ELSE @,
                     !.recovery = IF res.status = "VerifyRecovery" THEN "Success" ELSE @]
  <2>1. x \in AoData /\ x.pnc = ao["Bmc"].pnc
    BY <1>2 DEF AoData, Status
  <2>2. ao' = [ao EXCEPT !["Bmc"] = x]
    BY <1>2 DEF RecoverSucceeds
  <2> HIDE DEF x
  <2> QED BY <1>2, <2>1, <2>2, AoStore DEF IInv
<1>4. evq \in Seq(Matched)
  BY <1>1, HandlerRuns
<1>5. PICK once : /\ once = evq \/ once = post_smc_action(evq, "VERIFY", "Bmc", ctx.ev)
                  /\ evq' = post_smc_action(once, "VERIFY", "Bmc", ctx.ev)
  BY <1>2 DEF RecoverSucceeds
<1>6. /\ Len(evq') <= Len(evq) + 2
      /\ Count(evq', Updates) = Count(evq, Updates) /\ Count(evq', Mails) = Count(evq, Mails)
      /\ \A c \in {"Bmc0", "Bmc1"} : Count(evq', Recovers(c)) = Count(evq, Recovers(c))
      /\ \A s : Waits(evq', s) => Waits(evq, s) \/ s = "VERIFY"
      /\ \A s, t : Before(evq', s, t) => Before(evq, s, t) \/ t = "VERIFY"
  BY <1>2, <1>4, <1>5, VerifiesPosted
<1>7. Inside("RECOVERY") /\ ~Before(evq, "VERIFY", "RECOVERY") /\ InUse' = InUse
  BY <1>1, <1>3 DEF Inside, QInv, Blocks, InUse
<1>8. Len(evq') \in Nat
  BY DEF IInv, TypeOK
<1> QED BY <1>1, <1>3, <1>6, <1>7, <1>8, PostedB

\* PublishInitialEvents on the queue q posts at most two verifications.
LEMMA PublishCounts ==
  ASSUME IInv, NEW q \in Seq(Matched), PublishInitialEvents(q)
  PROVE  /\ left'.cmd = left.cmd /\ Len(evq') <= Len(q) + 2
         /\ Count(evq', Updates) = Count(q, Updates) /\ Count(evq', Mails) = Count(q, Mails)
         /\ \A c \in {"Bmc0", "Bmc1"} : Count(evq', Recovers(c)) = Count(q, Recovers(c))
         /\ \A s : Waits(evq', s) => Waits(q, s) \/ s = "VERIFY"
         /\ \A s, t : Before(evq', s, t) => Before(q, s, t) \/ t = "VERIFY"
<1>1. CASE prov /\ check_staging_area /\ PublishBmcEvents(q)
  <2>1. left'.cmd = left.cmd
    <3>1. PICK faults : Spend(faults)
      BY <1>1 DEF check_staging_area
    <3> QED BY <3>1 DEF Spend, IInv, TypeOK
  <2>2. PICK once : /\ once = post_smc_action(q, "VERIFY", "Bmc", "Bmc0")
                    /\ evq' = post_smc_action(once, "VERIFY", "Bmc", "Bmc1")
    BY <1>1 DEF PublishBmcEvents
  <2> QED BY <2>1, <2>2, VerifiesPosted
<1>2. CASE evq' = q /\ UNCHANGED left
  BY <1>2
<1> QED BY <1>1, <1>2 DEF PublishInitialEvents

\* An update that ends has a place for the initial events.
LEMMA UpdatePublishB == ASSUME IInv, IInv', LInv, QInv, BInv, UpdatePublish PROVE BInv'
<1>1. cur = "UPDATE" /\ pc = "publish" /\ pc' = "parent" /\ UNCHANGED <<cur, ctx>>
  BY DEF UpdatePublish, IInv, Handling
<1>2. evq \in Seq(Matched) /\ PublishInitialEvents(evq)
  BY <1>1, HandlerRuns DEF UpdatePublish
<1>3. /\ left'.cmd = left.cmd /\ Len(evq') <= Len(evq) + 2
      /\ Count(evq', Updates) = Count(evq, Updates) /\ Count(evq', Mails) = Count(evq, Mails)
      /\ \A c \in {"Bmc0", "Bmc1"} : Count(evq', Recovers(c)) = Count(evq, Recovers(c))
      /\ \A s : Waits(evq', s) => Waits(evq, s) \/ s = "VERIFY"
      /\ \A s, t : Before(evq', s, t) => Before(evq, s, t) \/ t = "VERIFY"
  BY <1>2, PublishCounts
<1>4. ao'["I2c"] = ao["I2c"] /\ ao'["Update"] = ao["Update"]
  BY <1>2, Contexts, PublishOrder
<1>5. Inside("UPDATE") /\ ~Before(evq, "VERIFY", "RECOVERY") /\ ao["Update"].pnc # 1
  BY <1>1 DEF Inside, QInv, Updating
<1>6. Len(evq') \in Nat
  BY DEF IInv, TypeOK
<1> QED BY <1>1, <1>3, <1>4, <1>5, <1>6, PostedB

\* UpdateIntentHandle posts at most three updates.
LEMMA IntentCounts ==
  ASSUME evq \in Seq(Matched), NEW bits, NEW source, UpdateIntentHandle(bits, source)
  PROVE  /\ Len(evq') <= Len(evq) + 3 /\ Count(evq', Updates) <= Count(evq, Updates) + 3
         /\ Count(evq', Mails) = Count(evq, Mails)
         /\ \A c \in {"Bmc0", "Bmc1"} : Count(evq', Recovers(c)) = Count(evq, Recovers(c))
<1> DEFINE n == Len(UpdateEvents(bits))
<1>0. n \in 0..3 /\ evq' = PublishUpdateEvents(evq, n)
  BY ThreeUpdates DEF UpdateIntentHandle
<1> HIDE DEF n
<1>1. n \in Nat /\ n <= 3 /\ evq' = PublishUpdateEvents(evq, n)
  BY <1>0
<1>2. /\ evq' \in Seq(Matched)
      /\ Count(evq', Updates) <= Count(evq, Updates) + n /\ Count(evq', Mails) = Count(evq, Mails)
      /\ \A c \in Chains : Count(evq', Recovers(c)) = Count(evq, Recovers(c))
  BY <1>1, UpdatesPosted
<1>3. Count(evq, Updates) \in Nat /\ Count(evq', Updates) \in Nat
  BY <1>2, CountType
<1>4. Len(evq') <= Len(evq) + n
  <2> DEFINE room == IF Len(evq) < QMax THEN QMax - Len(evq) ELSE 0
             m == IF n < room THEN n ELSE room
             u == [state |-> "UPDATE", ao |-> "Update", ev |-> "Update"]
             added == [k \in 1..m |-> u]
  <2>1. m \in Nat /\ m <= n
    BY <1>1, BoundsAssumption
  <2>2. evq' = evq \o added
    BY <1>1 DEF PublishUpdateEvents
  <2>3. u \in Matched
    BY DEF Matched
  <2> HIDE DEF m, u
  <2>4. added \in Seq(Matched) /\ Len(added) = m
    BY <2>1, <2>3
  <2> HIDE DEF added
  <2>5. ASSUME NEW p \in Seq(Matched), NEW t \in Seq(Matched)
        PROVE  Len(p \o t) = Len(p) + Len(t) /\ Len(p) \in Nat
    OBVIOUS
  <2>6. Len(evq') = Len(evq) + m /\ Len(evq) \in Nat
    BY <2>2, <2>4, <2>5
  <2> QED BY <1>1, <2>1, <2>6
<1>5. Len(evq) \in Nat /\ Len(evq') \in Nat
  BY <1>2
<1> QED BY <1>1, <1>2, <1>3, <1>4, <1>5 DEF Chains

\* process_i2c_command: a command that asks for updates finds at most two
\* verifications.
LEMMA RunI2cB == ASSUME IInv, IInv', LInv, QInv, BInv, RunI2c PROVE BInv'
<1>1. /\ cur = "I2C" /\ pc = "run" /\ pc' = "parent" /\ UNCHANGED <<cur, ctx, left>>
      /\ ctx.ao = "I2c" /\ ao["I2c"].pnc \in {0, 1}
  BY Contexts DEF RunI2c
<1>2. Refuted'
  BY <1>1 DEF Refuted
<1>3. CASE UNCHANGED <<ao, ev, evq>>
  BY <1>1, <1>2, <1>3, QuietB
<1>4. CASE ao' = [ao EXCEPT !["I2c"].pnc = 0] /\ UNCHANGED <<ev, evq>>
  <2>1. ao'["Bmc"] = ao["Bmc"] /\ ao'["Update"] = ao["Update"] /\ ao'["I2c"].pnc = 0
    <3> DEFINE d == [ao["I2c"] EXCEPT !.pnc = 0]
    <3>1. "I2c" \in AOs /\ ao["I2c"] \in AoData
      BY Objects DEF IInv, AOs
    <3>2. d \in AoData /\ d.pnc = 0
      BY <3>1 DEF AoData
    <3>3. ao' = [ao EXCEPT !["I2c"] = d]
      BY <1>4
    <3> HIDE DEF d
    <3> QED BY <3>1, <3>2, <3>3, AoStore DEF IInv, AOs
  <2> QED BY <1>1, <1>2, <1>4, <2>1, QuietB
<1>5. CASE ao["I2c"].pnc = 1 /\ UpdateIntentHandle(cmd.bits, cmd.source)
  <2>1. evq \in Seq(Matched) /\ Len(evq) \in Nat /\ Len(evq') \in Nat
    BY <1>1, HandlerRuns DEF IInv, TypeOK
  <2>2. /\ ~Waits(evq, "UPDATE") /\ ~Waits(evq, "RECOVERY") /\ Len(evq) <= 2
        /\ Used # 0 /\ (Used <= 1 => ~InUse)
    BY <1>1, <1>5 DEF QInv, Commanded, BInv, Short, FromCommands
  <2>3. Count(evq, Updates) = 0 /\ \A c : Count(evq, Recovers(c)) = 0
    BY <2>2, AbsentCount DEF Updates, Recovers
  <2>4. /\ Len(evq') <= Len(evq) + 3 /\ Count(evq', Updates) <= Count(evq, Updates) + 3
        /\ Count(evq', Mails) = Count(evq, Mails)
        /\ \A c \in {"Bmc0", "Bmc1"} : Count(evq', Recovers(c)) = Count(evq, Recovers(c))
    BY <1>5, <2>1, IntentCounts
  <2>5. /\ \A s : Waits(evq', s) => Waits(evq, s) \/ (s = "UPDATE" /\ ao'["Update"].pnc = 1)
        /\ ao'["Bmc"] = ao["Bmc"] /\ ao'["I2c"].pnc = 0
    BY <1>5, IntentOrder
  <2>6. Used' = Used /\ Bound' = Bound /\ Bound >= 9 /\ Bound \in Nat
    BY <1>1, <2>2, BoundType DEF Used, Bound
  <2>7. \A s : ~Inside(s)' /\ One(Inside(s)') = 0
    BY <1>1 DEF Inside, One
  <2>8. \A c \in {"Bmc0", "Bmc1"} : Recoveries(c)' = 0
    BY <2>3, <2>4 DEF Recoveries
  <2>9. OneRecovery'
    BY <2>8 DEF OneRecovery
  <2>10. FewWait' /\ Short'
    BY <2>3, <2>4, <2>5 DEF BInv, FewWait, Short
  <2>11. FromCommands'
    BY <1>1, <2>2, <2>5, <2>6 DEF FromCommands, InUse
  <2>12. Count(evq', Updates) \in Nat
    BY <2>1, CountType
  <2>13. Filled' <= 8 /\ Filled' \in Nat
    BY <2>1, <2>2, <2>3, <2>4, <2>7, <2>12 DEF Filled
  <2>14. UpdatesFit'
    BY <2>6, <2>7, <2>13 DEF UpdatesFit
  <2>15. RecoveriesFit'
    BY <2>6, <2>7, <2>8, <2>13 DEF RecoveriesFit
  <2> QED BY <1>2, <2>9, <2>10, <2>11, <2>14, <2>15 DEF BInv
<1>6. CASE ao["I2c"].pnc = 0
  <2>1. UNCHANGED <<ao, ev, evq>>
    BY <1>1, <1>6 DEF RunI2c
  <2> QED BY <1>3, <2>1
<1>7. CASE ao["I2c"].pnc = 1
  <2>1. \/ UpdateIntentHandle(cmd.bits, cmd.source)
        \/ ao' = [ao EXCEPT !["I2c"].pnc = 0] /\ UNCHANGED <<ev, evq>>
    BY <1>1, <1>7 DEF RunI2c
  <2> QED BY <1>4, <1>5, <1>7, <2>1
<1> QED BY <1>1, <1>6, <1>7

\* run_idle with nothing to dispatch: the handler that runs again finds an empty
\* queue.
LEMMA IdleEmptyB == ASSUME IInv, LInv, QInv, BInv, IdleEmpty PROVE BInv'
<1>1. evq = <<>> /\ pc' = "run" /\ UNCHANGED <<cur, ctx, evq, ao, ev, left>>
  BY DEF IdleEmpty
<1>2. /\ Len(evq) = 0 /\ (\A S : Count(evq, S) = 0) /\ \A c : Recoveries(c)' = 0
  BY <1>1, FitsEmpty, ShortQueue DEF Recoveries
<1>3. Used' = Used /\ Bound' = Bound /\ Bound >= 4 /\ Bound \in Nat
  BY <1>1, BoundType DEF Used, Bound
<1>4. OneRecovery'
  BY <1>2 DEF OneRecovery
<1>5. Refuted' /\ FewWait' /\ Short'
  BY <1>1, <1>2 DEF Refuted, FewWait, Short
<1>6. FromCommands'
  BY <1>1, <1>3 DEF BInv, FromCommands, InUse
<1>7. /\ One(Inside("UPDATE")') + One(Inside("VERIFY")') <= 1
      /\ One(Inside("UPDATE")') + One(Inside("RECOVERY")') <= 1
      /\ \A s : One(Inside(s)') \in {0, 1}
  BY DEF One, Inside
<1>8. Filled' = 2 * One(Inside("UPDATE")')
  BY <1>1, <1>2, <1>7 DEF Filled
<1>9. UpdatesFit' /\ RecoveriesFit'
  BY <1>2, <1>3, <1>7, <1>8 DEF UpdatesFit, RecoveriesFit
<1> QED BY <1>4, <1>5, <1>6, <1>9 DEF BInv

\* The initial events are the first.
LEMMA IdleInitializeB == ASSUME IInv, IInv', LInv, QInv, BInv, IdleInitialize PROVE BInv'
<1>1. Booting
  <2>1. ASSUME Running PROVE FALSE
    <3>1. evq \in Seq(Matched) /\ evq # <<>>
      BY <2>1 DEF Running, IdleInitialize
    <3>2. Head(evq) \in Matched
      BY <3>1
    <3>3. Head(evq).state = "INITIALIZE"
      BY DEF IdleInitialize
    <3> QED BY <3>2, <3>3 DEF Matched
  <2> QED BY <2>1 DEF IInv
<1>2. PICK q : q = <<>> /\ q = Tail(evq)
  BY <1>1 DEF Booting
<1>3. cur = "IDLE" /\ cur' = "IDLE" /\ pc' = "run" /\ PublishInitialEvents(q)
  BY <1>1, <1>2 DEF Booting, IdleInitialize
<1>4. /\ q \in Seq(Matched) /\ q \in Seq(SmcEvent) /\ Len(q) = 0
      /\ (\A S : Count(q, S) = 0) /\ \A s : ~Waits(q, s)
  BY <1>2, FitsEmpty, ShortQueue
<1>5. /\ left'.cmd = left.cmd /\ Len(evq') <= Len(q) + 2
      /\ Count(evq', Updates) = Count(q, Updates) /\ Count(evq', Mails) = Count(q, Mails)
      /\ \A c \in {"Bmc0", "Bmc1"} : Count(evq', Recovers(c)) = Count(q, Recovers(c))
      /\ \A s : Waits(evq', s) => Waits(q, s) \/ s = "VERIFY"
  BY <1>3, <1>4, PublishCounts
<1>6. ao'["I2c"] = ao["I2c"] /\ ao'["Update"] = ao["Update"]
  BY <1>3, <1>4, PublishOrder
<1>7. ao["I2c"].pnc # 1
  BY <1>1 DEF QInv, Commanded, Booting, InitialEvent
<1>8. Used' = Used /\ Bound' = Bound /\ Bound >= 4 /\ Bound \in Nat
  BY <1>5, BoundType DEF Used, Bound
<1>9. /\ Len(evq') <= 2 /\ Count(evq', Updates) = 0 /\ Count(evq', Mails) = 0
      /\ \A c \in {"Bmc0", "Bmc1"} : Recoveries(c)' = 0
  BY <1>4, <1>5 DEF Recoveries
<1>10. OneRecovery' /\ Refuted' /\ FewWait' /\ Short'
  BY <1>3, <1>6, <1>7, <1>9 DEF OneRecovery, Refuted, FewWait, Short
<1>11. FromCommands'
  BY <1>3, <1>4, <1>5, <1>6, <1>7, <1>8 DEF BInv, FromCommands
<1>12. One(Inside("UPDATE")') = 0 /\ One(Inside("VERIFY")') = 0 /\ One(Inside("RECOVERY")') = 0
  BY <1>3 DEF Inside, One
<1>13. Filled' <= 2 /\ Filled' \in Nat
  <2>1. Len(evq') \in Nat
    BY DEF IInv, TypeOK
  <2> QED BY <1>9, <1>12, <2>1 DEF Filled
<1>14. UpdatesFit' /\ RecoveriesFit'
  BY <1>8, <1>9, <1>12, <1>13 DEF UpdatesFit, RecoveriesFit
<1> QED BY <1>10, <1>11, <1>14 DEF BInv

\* What an event that waits is counted as when no watchdog expires.
LEMMA KindOf ==
  ASSUME NEW h \in Matched, h.ao # "Wdt"
  PROVE  /\ h.state \in {"VERIFY", "RECOVERY", "UPDATE", "I2C"}
         /\ h.state = "RECOVERY" => h.ev \in {"Bmc0", "Bmc1"}
         /\ h \in Updates <=> h.state = "UPDATE"
         /\ h \in Mails <=> h.state = "I2C"
         /\ \A c : h \in Recovers(c) <=> h.state = "RECOVERY" /\ h.ev = c
  BY DEF Matched, Updates, Mails, Recovers, EventsOf

\* run_idle dispatches the first event: an update or a recovery takes its places
\* with it.  With the last verification the recoveries come first, and then only
\* they, the updates and a command wait.
LEMMA IdleDispatchB == ASSUME IInv, IInv', LInv, QInv, BInv, IdleDispatch PROVE BInv'
<1> DEFINE hd == Head(evq)
           h == hd.state
           r == Tail(evq)
<1>1. /\ evq # <<>> /\ AtIdle /\ h # "INITIALIZE" /\ pc' = "run" /\ cur' = h /\ ctx'.ev = hd.ev
      /\ evq' = r /\ UNCHANGED <<ao, ev, left>>
  BY DEF IdleDispatch
<1>2. evq \in Seq(Matched) /\ evq \in Seq(SmcEvent)
  BY <1>1 DEF IInv, TypeOK, Booting, Running, InitialEvent
<1>3. /\ \A s : Waits(r, s) => Waits(evq, s) /\ Before(evq, h, s)
      /\ \A s, t : Before(r, s, t) => Before(evq, s, t)
      /\ \A s, t : Before(evq, s, t) => Before(r, s, t) \/ (s = h /\ Waits(r, t))
      /\ Waits(evq, h) /\ hd.ao # "Wdt" /\ NoWdt(r)
  BY <1>1, <1>2, TailOrder, HeadOrder DEF QInv, NoInterrupts
<1>4. /\ h \in {"VERIFY", "RECOVERY", "UPDATE", "I2C"}
      /\ h = "RECOVERY" => hd.ev \in {"Bmc0", "Bmc1"}
      /\ hd \in Updates <=> h = "UPDATE"
      /\ hd \in Mails <=> h = "I2C"
      /\ \A c : hd \in Recovers(c) <=> h = "RECOVERY" /\ hd.ev = c
  <2>1. hd \in Matched
    BY <1>1, <1>2
  <2> HIDE DEF hd
  <2> QED BY <1>3, <2>1, KindOf
<1>5. /\ \A S : Count(r, S) = Count(evq, S) - One(hd \in S)
      /\ Len(r) \in Nat /\ Len(evq) = Len(r) + 1
  BY <1>1, <1>2, CountTail
<1>6. r \in Seq(Matched) /\ \A S : Count(evq, S) \in Nat /\ Count(r, S) \in Nat
  <2>1. r \in Seq(Matched)
    BY <1>1, <1>2
  <2> QED BY <1>5, <2>1, BoundType, CountType
<1>7. /\ ~Inside("VERIFY") /\ ~Inside("RECOVERY") /\ ~Inside("UPDATE")
      /\ \A s : Inside(s)' <=> s = h
  BY <1>1 DEF AtIdle, Inside
<1>8. ao["I2c"].pnc = 1 => h = "I2C"
  BY <1>1 DEF QInv, Commanded, AtIdle
<1>9. Used' = Used /\ Bound' = Bound /\ Bound \in Nat
  BY <1>1, BoundType DEF Used, Bound
<1> HIDE DEF hd, h, r
<1> DEFINE u == Count(evq, Updates)
           a == One(h = "UPDATE")
           b == One(h = "RECOVERY")
           r0 == Recoveries("Bmc0")
           r1 == Recoveries("Bmc1")
<1>10. /\ a \in {0, 1} /\ b \in {0, 1} /\ One(h = "VERIFY") \in {0, 1}
       /\ a + One(h = "VERIFY") <= 1 /\ a + b <= 1
  BY DEF One
<1>11. Count(r, Updates) = u - a /\ \A S : Count(r, S) <= Count(evq, S)
  BY <1>4, <1>5, <1>6 DEF One
<1>12. /\ Recoveries("Bmc0")' = r0 - One(h = "RECOVERY" /\ hd.ev = "Bmc0")
       /\ Recoveries("Bmc1")' = r1 - One(h = "RECOVERY" /\ hd.ev = "Bmc1")
       /\ \A c : Recoveries(c)' \in Nat /\ Recoveries(c)' <= Recoveries(c) /\ Recoveries(c) \in Nat
  BY <1>1, <1>4, <1>5, <1>6 DEF Recoveries, One
<1>13. OneRecovery'
  <2> SUFFICES ASSUME NEW c \in {"Bmc0", "Bmc1"}
               PROVE  /\ Recoveries(c)' <= 1
                      /\ h = "RECOVERY" /\ hd.ev = c => Recoveries(c)' = 0
                      /\ Verifying(c) /\ Recoveries(c)' # 0 =>
                           h # "VERIFY" /\ ~Before(r, "VERIFY", "RECOVERY")
    BY <1>1, <1>7 DEF OneRecovery, Verifying
  <2>1. Recoveries(c) <= 1
    BY DEF BInv, OneRecovery
  <2>2. h = "RECOVERY" /\ hd.ev = c => Recoveries(c)' = 0
    BY <1>12, <2>1 DEF One
  <2>3. ASSUME Verifying(c), Recoveries(c)' # 0
        PROVE  h # "VERIFY" /\ ~Before(r, "VERIFY", "RECOVERY")
    <3>1. Recoveries(c) # 0
      BY <1>12, <2>3
    <3>2. ~Before(evq, "VERIFY", "RECOVERY")
      BY <2>3, <3>1 DEF BInv, OneRecovery
    <3>3. Waits(r, "RECOVERY")
      BY <1>1, <2>3, AbsentCount DEF Recoveries, Recovers
    <3> QED BY <1>3, <3>2, <3>3
  <2>4. Recoveries(c)' <= 1
    BY <1>12, <2>1
  <2> QED BY <2>2, <2>3, <2>4
<1>14. Refuted' /\ FewWait'
  <2>1. Refuted'
    BY <1>1 DEF Refuted
  <2>2. FewWait'
    BY <1>1, <1>6, <1>11 DEF BInv, FewWait
  <2> QED BY <2>1, <2>2
<1>15. Short'
  <2> SUFFICES ASSUME ao["I2c"].pnc = 1
               PROVE  Len(r) <= 2 /\ h = "I2C"
    BY <1>1, <1>5, <1>7 DEF Short
  <2> QED BY <1>5, <1>8 DEF BInv, Short
<1>16. FromCommands'
  BY <1>1, <1>3, <1>4, <1>8, <1>9 DEF BInv, FromCommands, InUse
<1>17. /\ Filled = Len(evq) + u /\ Filled \in Nat /\ u \in Nat
       /\ Filled' = Filled - 1 + a /\ Filled' \in Nat
  <2>1. One(Inside("UPDATE")) = 0 /\ One(Inside("UPDATE")') = a
    BY <1>7 DEF One
  <2>2. u \in Nat /\ u - a \in Nat
    BY <1>6, <1>11
  <2>3. Filled = Len(evq) + u
    BY <1>5, <2>1, <2>2 DEF Filled
  <2>4. Filled' = Len(r) + (u - a) + 2 * a
    BY <1>1, <1>11, <2>1 DEF Filled
  <2> HIDE DEF u, a
  <2> QED BY <1>5, <1>10, <2>2, <2>3, <2>4
<1>18. One(Inside("VERIFY")) = 0 /\ One(Inside("RECOVERY")) = 0
       /\ One(Inside("VERIFY")') = One(h = "VERIFY") /\ One(Inside("RECOVERY")') = b
  BY <1>7 DEF One
<1>19. UpdatesFit'
  <2>1. Filled <= Bound
    BY <1>17, <1>18 DEF BInv, UpdatesFit
  <2> HIDE DEF a, b, u
  <2> QED BY <1>9, <1>10, <1>17, <1>18, <2>1 DEF UpdatesFit
<1>20. RecoveriesFit'
  <2> SUFFICES ASSUME ~Before(r, "VERIFY", "RECOVERY")
               PROVE  Filled' + Recoveries("Bmc0")' + Recoveries("Bmc1")' + 2 * b <= Bound
    BY <1>1, <1>9, <1>18 DEF RecoveriesFit
  <2>1. CASE h # "VERIFY"
    <3>1. ~Before(evq, "VERIFY", "RECOVERY")
      BY <1>3, <2>1
    <3>2. Filled + r0 + r1 <= Bound
      BY <1>12, <1>17, <1>18, <3>1, SMTT(40) DEF BInv, RecoveriesFit
    <3>3. One(h = "RECOVERY" /\ hd.ev = "Bmc0") + One(h = "RECOVERY" /\ hd.ev = "Bmc1") = b
      BY <1>4 DEF One
    <3>4. /\ One(h = "RECOVERY" /\ hd.ev = "Bmc0") \in {0, 1}
          /\ One(h = "RECOVERY" /\ hd.ev = "Bmc1") \in {0, 1} /\ r0 \in Nat /\ r1 \in Nat
      BY <1>12 DEF One
    <3> HIDE DEF a, b, u, r0, r1
    <3>5. Recoveries("Bmc0")' + Recoveries("Bmc1")' = r0 + r1 - b
      BY <1>10, <1>12, <3>3, <3>4
    <3>6. Filled - 1 + a + (r0 + r1 - b) + 2 * b <= Bound
      BY <1>9, <1>10, <1>17, <3>2, <3>4
    <3>7. Recoveries("Bmc0")' \in Nat /\ Recoveries("Bmc1")' \in Nat
      BY <1>12
    <3> QED BY <1>10, <1>17, <3>4, <3>5, <3>6, <3>7, SMTT(40)
  <2>2. CASE h = "VERIFY"
    <3>1. a = 0 /\ b = 0
      BY <2>2 DEF One
    <3>2. ~Before(r, "RECOVERY", "VERIFY")
      <4>1. Inside("VERIFY")'
        BY <1>7, <2>2
      <4>2. QInv'
        BY IdleDispatchQ
      <4> QED BY <1>1, <4>1, <4>2 DEF QInv, Blocks
    <3>3. Filled <= Bound
      BY <1>17, <1>18 DEF BInv, UpdatesFit
    <3>4. CASE ~Waits(r, "RECOVERY")
      <4>1. \A c : Recoveries(c)' = 0
        BY <1>1, <3>4, AbsentCount DEF Recoveries, Recovers
      <4> HIDE DEF a, b, u
      <4> QED BY <1>9, <1>17, <3>1, <3>3, <4>1
    <3>5. CASE Waits(r, "RECOVERY")
      <4>1. ~Waits(r, "VERIFY")
        BY <1>5, <3>2, <3>5, OneWay
      <4> DEFINE q == Recoveries("Bmc0")' + Recoveries("Bmc1")'
                 v == Count(r, Updates)
                 i == Count(r, Mails)
      <4>2. Len(r) <= q + v + i
        BY <1>1, <1>3, <1>6, <4>1, NoVerifyLength DEF Recoveries
      <4>3. q \in 0..2 /\ v \in 0..3 /\ i \in 0..1
        BY <1>6, <1>11, <1>12, <1>13 DEF BInv, FewWait, OneRecovery
      <4>4. Used = 0 => v = 0 /\ i = 0
        <5>1. Used = 0 => ~Waits(r, "UPDATE") /\ ~Waits(r, "I2C")
          BY <1>3 DEF BInv, FromCommands
        <5> QED BY <5>1, AbsentCount DEF Updates, Mails
      <4>5. Used = 1 => v = 0
        <5>1. Used = 1 => ao["Update"].pnc # 1
          BY <1>3, <3>5 DEF BInv, FromCommands
        <5>2. ao["Update"].pnc # 1 => ~Waits(r, "UPDATE")
          <6> SUFFICES ASSUME ao["Update"].pnc # 1, Waits(r, "UPDATE") PROVE FALSE
            OBVIOUS
          <6>1. ao["Update"].pnc = 0
            BY Contexts
          <6>2. Waits(evq, "UPDATE") /\ Before(evq, "VERIFY", "UPDATE")
            BY <1>3, <2>2
          <6> QED BY <6>1, <6>2 DEF QInv, Updating
        <5> QED BY <5>1, <5>2, AbsentCount DEF Updates
      <4>6. Filled' = Len(r) + v
        BY <1>5, <1>11, <1>17, <3>1
      <4> HIDE DEF q, v, i
      <4>7. Len(r) + v + q <= 2 * q + 2 * v + i
        BY <1>5, <4>2, <4>3
      <4>8. 2 * q + 2 * v + i <= Bound
        BY <4>3, <4>4, <4>5, BoundType
      <4>9. Len(r) + v + q <= Bound
        BY <1>5, <1>9, <4>3, <4>7, <4>8
      <4> QED BY <1>5, <1>12, <3>1, <4>3, <4>6, <4>9 DEF q
    <3> QED BY <3>4, <3>5
  <2> QED BY <2>1, <2>2
<1> QED BY <1>13, <1>14, <1>15, <1>16, <1>19, <1>20 DEF BInv

\* A mailbox write in turn is the only event that waits, and gives the queue more
\* places than that.
LEMMA I2cWriteB ==
  ASSUME IInv, IInv', LInv, LInv', QInv, BInv, NEW c \in Commands, I2cWrite(c),
         left'.cmd < left.cmd => evq = <<>>
  PROVE  BInv'
<1>1. /\ left'.cmd = left.cmd - 1 /\ left.cmd \in Nat /\ bmc = "released"
      /\ UNCHANGED <<cur, ctx, pc, res>>
  BY DEF I2cWrite, IInv, TypeOK
<1>2. evq = <<>>
  BY <1>1
<1>3. ao'["Bmc"] = ao["Bmc"] /\ ao'["Update"] = ao["Update"]
  <2> DEFINE d == [ao["I2c"] EXCEPT !.pnc = 1, !.type = "I2C"]
  <2>1. "I2c" \in AOs /\ ao["I2c"] \in AoData
    BY Objects DEF IInv, AOs
  <2>2. d \in AoData
    BY <2>1 DEF AoData
  <2>3. ao' = [ao EXCEPT !["I2c"] = d]
    BY DEF I2cWrite
  <2> HIDE DEF d
  <2> QED BY <2>1, <2>2, <2>3, AoStore DEF IInv, AOs
<1>4. ~InUse'
  BY <1>1, <1>3 DEF QInv, HeldInUse, InUse
<1> DEFINE x == [state |-> "I2C", ao |-> "I2c", ev |-> "I2c"]
<1>5. evq' = <<x>>
  BY <1>2, ShortQueue, BoundsAssumption DEF I2cWrite, post_smc_action
<1>6. Len(evq') = 1 /\ evq' # <<>> /\ \A s : Waits(evq', s) => s = "I2C"
  BY <1>5 DEF Waits
<1>7. evq' \in Seq(Matched) /\ \A S : Count(evq', S) \in Nat
  <2>1. x \in Matched
    BY DEF Matched
  <2> HIDE DEF x
  <2> QED BY <1>5, <1>6, <2>1, CountType
<1>8. Count(evq', Updates) = 0 /\ \A e : Recoveries(e)' = 0
  BY <1>6, AbsentCount DEF Updates, Recoveries, Recovers
<1>9. Count(evq', Mails) <= 1
  <2>1. Count(<<>>, Mails) = 0
    BY FitsEmpty
  <2>2. Count(evq', Mails) <= Count(<<>>, Mails) + 1
    <3>1. evq \in Seq(Matched) /\ evq' = post_smc_action(evq, "I2C", "I2c", "I2c")
      BY <1>2 DEF I2cWrite
    <3>2. Count(evq', Mails) <= Count(evq, Mails) + 1
      BY <3>1, MailPosted
    <3> QED BY <1>2, <3>2
  <2> QED BY <2>1, <2>2
<1>10. Used' = Used + 1 /\ Used \in Nat /\ Bound' >= 9 /\ Bound' \in Nat
  <2>1. Used \in Nat /\ MaxCmd \in Nat
    BY BoundType, BoundsAssumption
  <2>2. Used' = Used + 1
    BY <1>1, <2>1 DEF Used
  <2> HIDE DEF Used
  <2> QED BY <2>1, <2>2 DEF Bound
<1>11. OneRecovery' /\ FewWait' /\ Short'
  BY <1>6, <1>8, <1>9 DEF OneRecovery, FewWait, Short
<1>12. Refuted'
  <2>1. pc = "auth" => ctx.ev \in {"Bmc0", "Bmc1"}
    BY Contexts DEF IInv, Handling
  <2>2. ev'["Bmc0"] = ev["Bmc0"] /\ ev'["Bmc1"] = ev["Bmc1"]
    BY DEF I2cWrite, IInv, TypeOK, Evs
  <2> QED BY <1>1, <2>1, <2>2 DEF BInv, Refuted, Verifying
<1>13. FromCommands'
  <2>1. Used' <= 1 => Used = 0
    BY <1>10
  <2>2. Used' # 0
    BY <1>10
  <2> QED BY <1>1, <1>3, <1>4, <1>6, <2>1, <2>2 DEF BInv, FromCommands
<1>14. \A s : One(Inside(s)') \in {0, 1}
  BY DEF One
<1>15. UpdatesFit' /\ RecoveriesFit'
  <2>1. Filled' <= 3 /\ Filled' \in Nat
    BY <1>6, <1>8, <1>14 DEF Filled
  <2> QED BY <1>8, <1>10, <1>14, <2>1 DEF UpdatesFit, RecoveriesFit
<1> QED BY <1>11, <1>12, <1>13, <1>15 DEF BInv

\* After a boot only the INITIALIZE event waits.
LEMMA BootedB == IInv /\ LInv /\ Booted => BInv
<1> SUFFICES ASSUME IInv, LInv, Booted PROVE BInv
  OBVIOUS
<1>0. /\ evq = <<InitialEvent>> /\ cur = "IDLE" /\ pc = "run"
      /\ ao["I2c"].pnc = 0 /\ ao["Update"].pnc = 0
  BY DEF Booted, BlankAO, AOs
<1>1. Len(evq) = 1 /\ \A s : Waits(evq, s) => s = "INITIALIZE"
  BY <1>0, ShortQueue
<1>2. \A e : Recoveries(e) = 0
  BY <1>1, AbsentCount DEF Recoveries, Recovers
<1>3. Count(evq, Updates) = 0 /\ Count(evq, Mails) = 0
  BY <1>1, AbsentCount DEF Updates, Mails
<1>4. One(Inside("UPDATE")) = 0 /\ One(Inside("VERIFY")) = 0 /\ One(Inside("RECOVERY")) = 0
  BY <1>0 DEF Inside, One
<1>5. OneRecovery /\ Refuted /\ FewWait /\ Short
  BY <1>0, <1>2, <1>3 DEF OneRecovery, Refuted, FewWait, Short
<1>6. FromCommands
  BY <1>0, <1>1 DEF FromCommands
<1>7. Bound \in Nat /\ Bound >= 4
  BY BoundType
<1>8. Filled = 1
  BY <1>1, <1>3, <1>4 DEF Filled
<1>9. UpdatesFit /\ RecoveriesFit
  BY <1>2, <1>4, <1>7, <1>8 DEF UpdatesFit, RecoveriesFit
<1> QED BY <1>5, <1>6, <1>9 DEF BInv

\* A restart leads to such a state.
LEMMA RebootB == ASSUME IInv', LInv', Reboot PROVE BInv'
<1>1. Booted'
  BY DEF Reboot, Booted, LInv, Counted
<1>2. (IInv /\ LInv /\ Booted => BInv)'
  BY BootedB, PTL
<1> QED BY <1>1, <1>2

\* So does the start.
LEMMA InitB == ASSUME IInv, LInv, Init PROVE BInv
<1>1. Booted
  BY DEF Init, Boot, Booted, LInv, Counted
<1> QED BY <1>1, BootedB

\* One step of Next in which a command comes in its turn preserves BInv.
LEMMA NextB ==
  ASSUME IInv, IInv', LInv, LInv', QInv, BInv, [Next]_vars,
         [left'.cmd < left.cmd => evq = <<>>]_vars
  PROVE  BInv'
<1>1. CASE UNCHANGED vars
  BY <1>1, StillB DEF vars
<1>2. CASE MainThread
  <2>1. ASSUME UpdateReboot PROVE BInv'
    BY <2>1, RebootB DEF UpdateReboot
  <2> QED
    BY <1>2, <2>1, IdleEmptyB, IdleInitializeB, IdleDispatchB, VerifyBeginB, VerifySucceedsB,
       VerifyFailsB, RecoverBeginB, RecoverSucceedsB, RecoverFailsB, UpdateBeginB, UpdateEndB,
       UpdatePublishB, RunI2cB, RunLockdownB DEF MainThread
<1>3. CASE Interrupt
  <2>1. left.bmcReset = 0 /\ left.timeout = 0
    BY DEF QInv, NoInterrupts
  <2>2. PICK c \in Commands : I2cWrite(c)
    BY <1>3, <2>1 DEF Interrupt, BmcReset, WdtTimeout
  <2>3. CASE UNCHANGED vars
    BY <1>1, <2>3
  <2>4. CASE left'.cmd < left.cmd => evq = <<>>
    BY <2>2, <2>4, I2cWriteB
  <2> QED BY <2>3, <2>4
<1>4. CASE Environment
  <2>1. ASSUME Reset PROVE BInv'
    BY <2>1, RebootB DEF Reset
  <2>2. ASSUME NEW i \in Images, NEW r \in Regions, Corrupt(i, r) PROVE BInv'
    <3>1. left'.cmd = left.cmd
      BY <2>2 DEF Corrupt, IInv, TypeOK
    <3> QED BY <2>2, <3>1, StillB DEF Corrupt
  <2> QED BY <1>4, <2>1, <2>2 DEF Environment
<1> QED
  BY <1>1, <1>2, <1>3, <1>4 DEF Next

LEMMA BInvariance ==
  ASSUME MaxBmcReset = 0, MaxTimeout = 0
  PROVE  Spec /\ CommandsInTurn => [](IInv /\ LInv /\ QInv /\ BInv)
<1>1. IInv /\ LInv /\ Init => BInv
  BY InitB
<1>2. IInv /\ IInv' /\ LInv /\ LInv' /\ QInv /\ BInv /\ [Next]_vars
        /\ [left'.cmd < left.cmd => evq = <<>>]_vars => BInv'
  BY NextB
<1> QED
  BY <1>1, <1>2, Invariance, LInvariance, QInvariance, PTL DEF Spec, CommandsInTurn

LEMMA WithinBound ==
  ASSUME IInv, LInv, BInv
  PROVE  Len(evq) \in Nat /\ Len(evq) <= Bound
<1>1. \A s : One(Inside(s)) \in {0, 1}
  BY InsideType
<1>2. Filled + One(Inside("VERIFY")) <= Bound
  BY DEF BInv, UpdatesFit
<1> QED BY <1>1, <1>2, BoundType DEF Filled

\* The duplicate events of the recovery path do not pile up: four events wait
\* before the first command, and every command adds at most five, for any number of
\* commands, corruptions, faulty writes and resets and any queue capacity, when no
\* watchdog expires, the BMC does not reset itself and it writes no command while
\* an event waits.
THEOREM QueueStaysBounded ==
  ASSUME MaxBmcReset = 0, MaxTimeout = 0
  PROVE  Spec /\ CommandsInTurn => []QueueBounded
<1>1. IInv /\ LInv /\ QInv /\ BInv => QueueBounded
  <2> SUFFICES ASSUME IInv, LInv, QInv, BInv PROVE QueueBounded
    OBVIOUS
  <2>1. left.bmcReset = 0 /\ left.timeout = 0
    BY DEF QInv, NoInterrupts
  <2>2. Bound <= 4 + 5 * Used /\ Used \in Nat
    BY BoundType
  <2>3. Bound \in Nat
    BY BoundType
  <2>4. Len(evq) <= 4 + 5 * Used
    BY <2>2, <2>3, WithinBound
  <2> QED BY <2>1, <2>4 DEF QueueBounded, Used
<1> QED
  BY <1>1, BInvariance, PTL

\* In these behaviours the events that wait are at most fourteen, however many
\* commands are served: a k_malloc heap for fourteen events is never exhausted.
THEOREM QueueStaysShort ==
  ASSUME MaxBmcReset = 0, MaxTimeout = 0
  PROVE  Spec /\ CommandsInTurn => [](Len(evq) <= 14)
<1>1. IInv /\ LInv /\ QInv /\ BInv => Len(evq) <= 14
  <2> SUFFICES ASSUME IInv, LInv, BInv PROVE Len(evq) <= 14
    OBVIOUS
  <2>1. Bound \in {4, 9, 14}
    BY BoundType
  <2> QED BY <2>1, WithinBound
<1> QED
  BY <1>1, BInvariance, PTL
=============================================================================
