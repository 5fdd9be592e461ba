--------------------------- MODULE VersionsProofs ---------------------------
(***************************************************************************)
(* Proofs about Versions for every set of capsules and key cancellations,  *)
(* every number of pages and any number of resets and damages: type        *)
(* correctness, what is released is recorded, no update goes back, no key  *)
(* that was cancelled is used, rewriting is always backed, lockdown is     *)
(* hopeless, an update that was cut off can be repeated, and the           *)
(* refinement of UfmStore.                                                 *)
(***************************************************************************)
EXTENDS Versions, UfmPolicyProofs, SequenceTheorems, TLAPS

-----------------------------------------------------------------------------
(* The version word                                                        *)

\* Raising a word records the version and forgets none.
LEMMA RaisedFacts ==
  ASSUME NEW w, Recordable(w), NEW n \in 0..SVN_MAX
  PROVE  /\ Recordable(Raised(w, n))
         /\ get_ufm_svn(Raised(w, n)) \in 0..SVN_MAX
         /\ get_ufm_svn(Raised(w, n)) >= n
         /\ get_ufm_svn(Raised(w, n)) >= get_ufm_svn(w)
<1>1. CASE get_ufm_svn(w) < n
  <2>1. Raised(w, n) = set_ufm_svn(n)
    BY <1>1 DEF Raised
  <2>2. get_ufm_svn(Raised(w, n)) = n
    BY <2>1, SvnRoundTrip
  <2>3. get_ufm_svn(w) \in 0..SVN_MAX
    BY RecordableFacts
  <2> QED BY <1>1, <2>1, <2>2, <2>3 DEF Recordable, SVN_MAX
<1>2. CASE ~(get_ufm_svn(w) < n)
  <2>1. Raised(w, n) = w
    BY <1>2 DEF Raised
  <2>2. get_ufm_svn(w) \in 0..SVN_MAX
    BY RecordableFacts
  <2> QED BY <1>2, <2>1, <2>2 DEF SVN_MAX
<1> QED BY <1>1, <1>2

-----------------------------------------------------------------------------
(* The inductive invariant                                                 *)

VR == Event("VERIFY", "recovery")
VA == Event("VERIFY", "active")
RR == Event("RECOVERY", "recovery")
RA == Event("RECOVERY", "active")

Recorded(c) == c \in Capsules /\ Image[c].svn <= get_ufm_svn(svn)

\* The active region would be found intact.
Boots == PfmVerifies(pfm, keys) /\ PagesMatch(pages, pfm)

\* The main thread is between the first verification and its verdict.
Judging == pc = "run" \/ (Rewriting /\ job.why = "recover")

\* The recovery capsule is verified before the active region is.
Pending(q) ==
  /\ Len(q) >= 1
  /\ q[1] = VR \/ (q[1] = RA /\ Len(q) >= 2 /\ q[2] = VR)

\* The version word is one that set_ufm_svn writes, and no version that was
\* released or shown to the BMC is above it; cancelled keys do not verify.
PolicyKept ==
  /\ Recordable(svn)
  /\ top <= get_ufm_svn(svn) /\ activeSvn <= get_ufm_svn(svn)
  /\ \A k \in gone : ~verify_kc_flag(keys, k.kind, k.id)

\* An active region marked as good is recorded, or was recovered from a recovery
\* capsule that is.
ActiveMark ==
  Judging /\ act = "Success" =>
    Recorded(pfm) \/ (pfm \in Capsules /\ pfm = recovery /\ rec = "Success")

\* A recovery capsule marked as good authenticates, and is recorded or will be
\* before the active region is judged.
RecoveryMark ==
  Judging /\ rec = "Success" =>
    CapsuleVerifies(recovery, keys) /\ (Recorded(recovery) \/ Pending(evq))

\* As long as there is no good recovery capsule, the queue says how far the main
\* thread has come and what it found.
NoRecovery ==
  Judging /\ rec # "Success" =>
    \/ pc = "run" /\ evq = <<VR, VA>> /\ act # "Success"
    \/ pc = "run" /\ evq = <<VA, RR>> /\ act # "Success" /\ ~CapsuleVerifies(recovery, keys)
    \/ /\ pc = "run" /\ evq = <<RR, RA>> /\ act # "Success"
       /\ ~CapsuleVerifies(recovery, keys) /\ ~Boots
    \/ pc = "run" /\ evq = <<RR>> /\ act = "Success" /\ ~CapsuleVerifies(recovery, keys)
    \/ pc \in {"copy", "copywrite"} /\ evq = <<RA>> /\ act # "Success"
    \/ /\ pc \in {"copy", "copywrite"} /\ evq = <<>> /\ act = "Success"
       /\ activeSvn = Image[staging].svn

\* What is being rewritten, from what, and what stands behind it.
RewriteKept ==
  Rewriting =>
    /\ job.region = IF pc \in {"copy", "copywrite"} THEN "recovery" ELSE "active"
    /\ job.why # "recover" => /\ job.from = "staging" /\ CapsuleVerifies(staging, keys)
                              /\ Image[staging].svn = get_ufm_svn(svn)
                              /\ job.region = "active" => CapsuleVerifies(recovery, keys)
    /\ job.why = "recover" /\ job.region = "active" =>
         job.from = "recovery" /\ rec = "Success" /\ act # "Success"
    /\ job.why = "recover" /\ job.region = "recovery" =>
         job.from = "staging" /\ rec # "Success" /\ CapsuleVerifies(staging, keys)

ReleasedKept == pc = "released" /\ pfm \in Capsules => Recorded(pfm)

IInv == /\ TypeOK /\ PolicyKept /\ ActiveMark /\ RecoveryMark /\ NoRecovery /\ RewriteKept
        /\ ReleasedKept /\ LockdownIsHopeless

-----------------------------------------------------------------------------
(* The invariant is kept                                                   *)

\* What a capsule holds.
LEMMA ImageFacts ==
  ASSUME NEW c \in Capsules
  PROVE  /\ Image[c].svn \in 0..SVN_MAX /\ Image[c].active \subseteq Pages
         /\ Image[c].data \subseteq Pages /\ Image[c].capsuleKey \in Nat /\ Image[c].pfmKey \in Nat
  BY VersionsAssumption DEF Contents

\* The version word reads as a version.
LEMMA SvnType == IInv => get_ufm_svn(svn) \in 0..SVN_MAX /\ svn \in VersionWords
  BY RecordableFacts DEF IInv, PolicyKept

\* What is being copied is a capsule that authenticates.
LEMMA SourceVerifies ==
  ASSUME IInv, Rewriting
  PROVE  CapsuleVerifies(Source, keys) /\ Source \in Capsules
<1>1. CASE job.why # "recover"
  BY <1>1 DEF IInv, RewriteKept, Source, CapsuleVerifies
<1>2. CASE job.why = "recover"
  BY <1>2 DEF IInv, RewriteKept, RecoveryMark, Judging, Source, CapsuleVerifies, TypeOK, Jobs, Regions
<1> QED BY <1>1, <1>2

LEMMA InitKept == Init => IInv
<1> SUFFICES ASSUME Init PROVE IInv
  OBVIOUS
<1>1. set_ufm_svn(0) = {} /\ 0 \in 0..SVN_MAX
  BY SvnBits DEF SVN_MAX
<1>2. Recordable(svn) /\ get_ufm_svn(svn) = 0
  BY <1>1, SvnRoundTrip DEF Init, Recordable
<1>3. PolicyKept
  BY <1>2 DEF Init, PolicyKept
<1>4. ActiveMark /\ RecoveryMark /\ NoRecovery /\ RewriteKept /\ ReleasedKept /\ LockdownIsHopeless
  BY DEF Init, ActiveMark, RecoveryMark, NoRecovery, RewriteKept, ReleasedKept,
         LockdownIsHopeless, Judging, Rewriting
<1>5. TypeOK
  <2>1. svn \in VersionWords
    BY <1>2, RecordableFacts
  <2>2. page \in Pages
    BY VersionsAssumption DEF Init, Pages
  <2>3. job \in Jobs
    BY DEF Init, NoJob, Jobs, Regions
  <2>4. pages \in [Pages -> Capsules \cup {Bad, Blank}]
    BY DEF Init
  <2>5. left \in [stage : Nat, reset : Nat, corrupt : Nat]
    BY VersionsAssumption DEF Init
  <2>6. evq \in Seq(Events) /\ activeSvn \in 0..SVN_MAX /\ top \in 0..SVN_MAX
    BY <1>1 DEF Init
  <2> QED BY <2>1, <2>2, <2>3, <2>4, <2>5, <2>6 DEF Init, TypeOK, Status
<1> QED BY <1>3, <1>4, <1>5 DEF IInv

\* The BMC stages capsules, damages its flash and leaves requests.
LEMMA StageKept == ASSUME IInv, NEW c \in Capsules \cup Cancels \cup {Bad}, Stage(c) PROVE IInv'
<1>1. TypeOK'
  <2>1. left' \in [stage : Nat, reset : Nat, corrupt : Nat]
    BY DEF IInv, TypeOK, Stage
  <2> QED BY <2>1 DEF IInv, TypeOK, Stage, policyVars
<1>2. PolicyKept'
  BY DEF IInv, PolicyKept, Stage, policyVars
<1>3. /\ ActiveMark' /\ RecoveryMark' /\ NoRecovery' /\ RewriteKept' /\ ReleasedKept'
      /\ LockdownIsHopeless'
  BY DEF IInv, Stage, policyVars, ActiveMark, RecoveryMark, NoRecovery, RewriteKept, ReleasedKept,
         LockdownIsHopeless, Judging, Rewriting, Recorded
<1> QED BY <1>1, <1>2, <1>3 DEF IInv

LEMMA CorruptKept == ASSUME IInv, Corrupt PROVE IInv'
<1>1. TypeOK'
  <2>1. left' \in [stage : Nat, reset : Nat, corrupt : Nat]
    BY DEF IInv, TypeOK, Corrupt
  <2>2. pages' \in [Pages -> Capsules \cup {Bad, Blank}]
    BY DEF IInv, TypeOK, Corrupt
  <2> QED BY <2>1, <2>2 DEF IInv, TypeOK, Corrupt, policyVars
<1>2. PolicyKept'
  BY DEF IInv, PolicyKept, Corrupt, policyVars
<1>3. Bad \notin Capsules
  BY VersionsAssumption
<1>4. /\ ActiveMark' /\ RecoveryMark' /\ NoRecovery' /\ RewriteKept' /\ ReleasedKept'
      /\ LockdownIsHopeless'
  BY <1>3 DEF IInv, Corrupt, policyVars, ActiveMark, RecoveryMark, NoRecovery, RewriteKept,
         ReleasedKept, LockdownIsHopeless, Judging, Rewriting, Recorded
<1> QED BY <1>1, <1>2, <1>4 DEF IInv

LEMMA UpdateAtResetKept ==
  ASSUME IInv, NEW rs \in SUBSET Regions, UpdateAtReset(rs) PROVE IInv'
<1>1. TypeOK'
  BY DEF IInv, TypeOK, UpdateAtReset, policyVars, flashVars, historyVars
<1>2. PolicyKept'
  BY DEF IInv, PolicyKept, UpdateAtReset, policyVars, historyVars
<1>3. /\ ActiveMark' /\ RecoveryMark' /\ NoRecovery' /\ RewriteKept' /\ ReleasedKept'
      /\ LockdownIsHopeless'
  BY DEF IInv, UpdateAtReset, policyVars, flashVars, ActiveMark, RecoveryMark, NoRecovery,
         RewriteKept, ReleasedKept, LockdownIsHopeless, Judging, Rewriting, Recorded
<1> QED BY <1>1, <1>2, <1>3 DEF IInv

LEMMA ResetKept == ASSUME IInv, Reset PROVE IInv'
<1>1. TypeOK'
  <2>1. 0 \in Pages /\ 0 \in 0..SVN_MAX /\ NoJob \in Jobs /\ <<>> \in Seq(Events)
    BY VersionsAssumption DEF Pages, NoJob, Jobs, Regions, SVN_MAX
  <2>2. left' \in [stage : Nat, reset : Nat, corrupt : Nat]
    BY DEF IInv, TypeOK, Reset
  <2>3. cut' \in BOOLEAN
    BY DEF Reset
  <2> QED BY <2>1, <2>2, <2>3 DEF IInv, TypeOK, Reset, policyVars, flashVars, Status
<1>2. PolicyKept'
  <2>1. get_ufm_svn(svn) >= 0
    BY SvnType DEF SVN_MAX
  <2> QED BY <2>1 DEF IInv, PolicyKept, Reset, policyVars
<1>3. /\ ActiveMark' /\ RecoveryMark' /\ NoRecovery' /\ RewriteKept' /\ ReleasedKept'
      /\ LockdownIsHopeless'
  BY DEF Reset, ActiveMark, RecoveryMark, NoRecovery, RewriteKept, ReleasedKept,
         LockdownIsHopeless, Judging, Rewriting
<1> QED BY <1>1, <1>2, <1>3 DEF IInv

\* Pages are erased and written one after the other.
LEMMA ErasePageKept == ASSUME IInv, ErasePage PROVE IInv'
<1>1. Source \in Capsules /\ Image[Source].active \subseteq Pages
  BY SourceVerifies, ImageFacts DEF ErasePage, Rewriting
<1>2. page' \in Pages
  BY VersionsAssumption DEF IInv, TypeOK, ErasePage, Pages
<1>3. TypeOK'
  BY <1>1, <1>2 DEF IInv, TypeOK, ErasePage, policyVars, historyVars
<1>4. PolicyKept'
  BY DEF IInv, PolicyKept, ErasePage, policyVars, historyVars
<1>5. ActiveMark' /\ RecoveryMark' /\ NoRecovery' /\ RewriteKept'
  BY DEF IInv, ErasePage, policyVars, ActiveMark, RecoveryMark, NoRecovery, RewriteKept,
         Judging, Rewriting, Recorded
<1>6. ReleasedKept' /\ LockdownIsHopeless'
  BY DEF ErasePage, ReleasedKept, LockdownIsHopeless
<1> QED BY <1>3, <1>4, <1>5, <1>6 DEF IInv

LEMMA WritePageKept == ASSUME IInv, WritePage PROVE IInv'
<1>1. Source \in Capsules /\ Image[Source].data \subseteq Pages
  BY SourceVerifies, ImageFacts DEF WritePage, Rewriting
<1>2. page' \in Pages
  BY VersionsAssumption DEF IInv, TypeOK, WritePage, Pages
<1>3. TypeOK'
  BY <1>1, <1>2 DEF IInv, TypeOK, WritePage, policyVars, historyVars
<1>4. PolicyKept'
  BY DEF IInv, PolicyKept, WritePage, policyVars, historyVars
<1>5. ActiveMark' /\ RecoveryMark' /\ NoRecovery' /\ RewriteKept'
  BY DEF IInv, WritePage, policyVars, ActiveMark, RecoveryMark, NoRecovery, RewriteKept,
         Judging, Rewriting, Recorded
<1>6. ReleasedKept' /\ LockdownIsHopeless'
  BY DEF WritePage, ReleasedKept, LockdownIsHopeless
<1> QED BY <1>3, <1>4, <1>5, <1>6 DEF IInv

\* A region is erased as a whole before it is written.
LEMMA EraseTargetKept == ASSUME IInv, EraseTarget PROVE IInv'
<1>1. TypeOK'
  BY DEF IInv, TypeOK, EraseTarget, policyVars, historyVars
<1>2. PolicyKept'
  BY DEF IInv, PolicyKept, EraseTarget, policyVars, historyVars
<1>3. CASE pc = "pfm"
  <2>1. job.region = "active" /\ pc' = "pfmwrite" /\ UNCHANGED <<recovery, staging, keys, svn>>
    BY <1>3 DEF IInv, RewriteKept, Rewriting, EraseTarget, policyVars
  <2>2. RewriteKept'
    BY <1>3, <2>1 DEF IInv, RewriteKept, Rewriting, EraseTarget, policyVars
  <2>3. ActiveMark' /\ RecoveryMark' /\ NoRecovery'
    BY <1>3, <2>1 DEF IInv, RewriteKept, Rewriting, EraseTarget, ActiveMark, RecoveryMark,
         NoRecovery, Judging, Recorded
  <2> QED BY <1>1, <1>2, <1>3, <2>1, <2>2, <2>3
          DEF IInv, EraseTarget, ReleasedKept, LockdownIsHopeless
<1>4. CASE pc = "copy"
  <2>1. job.region = "recovery" /\ pc' = "copywrite" /\ UNCHANGED <<pfm, staging, keys, svn>>
    BY <1>4 DEF IInv, RewriteKept, Rewriting, EraseTarget, policyVars
  <2>2. RewriteKept'
    BY <1>4, <2>1 DEF IInv, RewriteKept, Rewriting, EraseTarget, policyVars
  <2>3. ActiveMark' /\ RecoveryMark' /\ NoRecovery'
    BY <1>4, <2>1 DEF IInv, RewriteKept, Rewriting, EraseTarget, ActiveMark, RecoveryMark,
         NoRecovery, Judging, Recorded
  <2> QED BY <1>1, <1>2, <1>4, <2>1, <2>2, <2>3
          DEF IInv, EraseTarget, ReleasedKept, LockdownIsHopeless
<1> QED BY <1>3, <1>4 DEF EraseTarget

\* The verifications are posted with both regions marked as bad.
LEMMA PublishedKept ==
  ASSUME IInv, PublishBmcEvents, TypeOK', PolicyKept'
  PROVE  IInv'
<1>1. /\ pc' = "run" /\ act' # "Success" /\ rec' # "Success" /\ evq' = <<VR, VA>>
  BY DEF PublishBmcEvents, VR, VA
<1> QED BY <1>1 DEF IInv, ActiveMark, RecoveryMark, NoRecovery, RewriteKept, ReleasedKept,
       LockdownIsHopeless, Judging, Rewriting

\* However an update ends, nothing of it is left to keep.
LEMMA UpdateEndsKept ==
  ASSUME IInv, NEW why, NEW ok, UpdateEnds(why, ok), TypeOK', PolicyKept'
  PROVE  IInv'
<1>1. CASE why = "deferred"
  BY <1>1, PublishedKept DEF UpdateEnds
<1>2. CASE why # "deferred"
  BY <1>2 DEF UpdateEnds, IInv, ActiveMark, RecoveryMark, NoRecovery, RewriteKept, ReleasedKept,
       LockdownIsHopeless, Judging, Rewriting
<1> QED BY <1>1, <1>2

LEMMA EventTypes ==
  /\ \A k \in {"VERIFY", "RECOVERY"}, r \in Regions : Event(k, r) \in Events
  /\ VR \in Events /\ VA \in Events /\ RR \in Events /\ RA \in Events
  /\ VR # VA /\ VR # RR /\ VR # RA /\ VA # RR /\ VA # RA /\ RR # RA
  BY DEF Event, Events, VR, VA, RR, RA, Regions

LEMMA UpdateEndsType ==
  ASSUME TypeOK, NEW why, NEW ok, UpdateEnds(why, ok)
  PROVE  /\ due' \in SUBSET Regions /\ act' \in Status /\ rec' \in Status
         /\ activeSvn' = activeSvn /\ evq' \in Seq(Events) /\ pc' \in {"run", "publish"}
<1>1. CASE why = "deferred"
  <2>1. <<VR, VA>> \in Seq(Events)
    BY EventTypes
  <2> QED BY <1>1, <2>1 DEF UpdateEnds, PublishBmcEvents, TypeOK, Status, VR, VA
<1>2. CASE why # "deferred"
  BY <1>2 DEF UpdateEnds, TypeOK
<1> QED BY <1>1, <1>2

\* A region that was recovered is good; one that was updated is verified anew.
LEMMA WriteTargetKept == ASSUME IInv, WriteTarget PROVE IInv'
<1>1. Rewriting /\ Source \in Capsules /\ CapsuleVerifies(Source, keys)
  BY SourceVerifies DEF WriteTarget, Rewriting
<1>2. PolicyKept'
  <2>1. activeSvn' = activeSvn
    BY UpdateEndsType DEF IInv, WriteTarget, Recovered
  <2> QED BY <2>1 DEF IInv, PolicyKept, WriteTarget, policyVars
<1>3. CASE job.why = "recover"
  <2>0. Recovered /\ UNCHANGED <<pages, staging, svn, keys, job, page, top, gone, left>>
    BY <1>3 DEF WriteTarget, policyVars
  <2>1. TypeOK'
    <3>1. evq' \in Seq(Events)
      BY <2>0, EventTypes DEF Recovered, IInv, TypeOK, Jobs
    <3>2. act' \in Status /\ rec' \in Status /\ pc' = "run" /\ cut' \in BOOLEAN
          /\ pfm' \in Capsules \cup {Bad} /\ recovery' \in Capsules \cup {Bad}
          /\ due' = due /\ activeSvn' = activeSvn
      BY <1>1, <2>0 DEF Recovered, IInv, TypeOK, Status, WriteTarget
    <3> QED BY <2>0, <3>1, <3>2 DEF IInv, TypeOK
  <2>2. CASE pc = "pfmwrite"
    <3>1. /\ job.region = "active" /\ job.from = "recovery" /\ rec = "Success" /\ act' = "Success"
          /\ rec' = rec /\ recovery' = recovery /\ pfm' = recovery /\ pc' = "run"
      BY <1>1, <1>3, <2>0, <2>2 DEF IInv, RewriteKept, WriteTarget, Recovered, Source
    <3>2. CapsuleVerifies(recovery, keys) /\ (Recorded(recovery) \/ Pending(evq))
      BY <1>1, <1>3, <3>1 DEF IInv, RecoveryMark, Judging
    <3>3. Pending(evq) => Pending(evq')
      BY <2>0, <3>1, EventTypes DEF Pending, Recovered, IInv, TypeOK
    <3>4. RecoveryMark' /\ ActiveMark'
      BY <1>1, <2>0, <3>1, <3>2, <3>3
         DEF RecoveryMark, ActiveMark, Recorded, CapsuleVerifies
    <3> QED BY <1>2, <2>1, <3>1, <3>4
            DEF IInv, NoRecovery, RewriteKept, ReleasedKept, LockdownIsHopeless, Rewriting
  <2>3. CASE pc = "copywrite"
    <3>1. /\ job.region = "recovery" /\ job.from = "staging" /\ rec # "Success" /\ act' = act
          /\ rec' = "Success" /\ recovery' = staging /\ pfm' = pfm /\ pc' = "run"
      BY <1>1, <1>3, <2>0, <2>3 DEF IInv, RewriteKept, WriteTarget, Recovered, Source
    <3>2. evq' = evq \o <<VR, VR>>
      BY <2>0, <3>1 DEF Recovered, VR
    <3>3. CapsuleVerifies(staging, keys) /\ staging \in Capsules
      BY <1>1, <3>1 DEF Source
    <3>4. CASE act = "Success"
      <4>1. Image[staging].svn <= get_ufm_svn(svn) /\ Recorded(pfm)
        BY <1>1, <1>3, <2>3, <3>1, <3>4 DEF IInv, NoRecovery, ActiveMark, Judging, PolicyKept
      <4> QED BY <1>2, <2>0, <2>1, <3>1, <3>3, <4>1
              DEF IInv, NoRecovery, RewriteKept, ReleasedKept, LockdownIsHopeless, Rewriting,
                  RecoveryMark, ActiveMark, Recorded, CapsuleVerifies
    <3>5. CASE act # "Success"
      <4>1. evq = <<RA>>
        BY <1>1, <1>3, <2>3, <3>1, <3>5 DEF IInv, NoRecovery, Judging
      <4>2. Pending(evq')
        BY <4>1, <3>2, EventTypes DEF Pending
      <4> QED BY <1>2, <2>0, <2>1, <3>1, <3>3, <3>5, <4>2
              DEF IInv, NoRecovery, RewriteKept, ReleasedKept, LockdownIsHopeless, Rewriting,
                  RecoveryMark, ActiveMark, Recorded, CapsuleVerifies
    <3> QED BY <3>4, <3>5
  <2> QED BY <2>2, <2>3 DEF WriteTarget
<1>4. CASE job.why # "recover"
  <2>1. UpdateEnds(job.why, TRUE)
    BY <1>4 DEF WriteTarget
  <2>2. TypeOK'
    <3>1. pfm' \in Capsules \cup {Bad} /\ recovery' \in Capsules \cup {Bad} /\ cut' \in BOOLEAN
      BY <1>1 DEF WriteTarget, IInv, TypeOK
    <3> QED BY <2>1, <3>1, UpdateEndsType DEF IInv, TypeOK, WriteTarget, policyVars
  <2> QED BY <1>2, <2>1, <2>2, UpdateEndsKept
<1> QED BY <1>3, <1>4

\* A step that raises the version word by the version of a capsule, or leaves it.
Raises(c) == svn' = svn \/ (c \in Capsules /\ svn' = Raised(svn, Image[c].svn))

LEMMA RaisesFacts ==
  ASSUME IInv, NEW c, Raises(c)
  PROVE  /\ Recordable(svn') /\ svn' \in VersionWords /\ get_ufm_svn(svn') \in 0..SVN_MAX
         /\ get_ufm_svn(svn') >= get_ufm_svn(svn)
         /\ c \in Capsules /\ svn' = Raised(svn, Image[c].svn) => Image[c].svn <= get_ufm_svn(svn')
<1>0. Recordable(svn) /\ get_ufm_svn(svn) \in 0..SVN_MAX
  BY SvnType DEF IInv, PolicyKept
<1>1. CASE c \in Capsules /\ svn' = Raised(svn, Image[c].svn)
  <2>1. Image[c].svn \in 0..SVN_MAX
    BY <1>1, ImageFacts
  <2> QED BY <1>0, <1>1, <2>1, RaisedFacts, RecordableFacts DEF SVN_MAX
<1>2. CASE svn' = svn /\ ~(c \in Capsules /\ svn' = Raised(svn, Image[c].svn))
  BY <1>0, <1>2, RecordableFacts DEF SVN_MAX
<1> QED BY <1>1, <1>2 DEF Raises

\* The history and the register stay within the version word.
LEMMA HistoryStays ==
  ASSUME IInv, NEW c, Raises(c)
  PROVE  top <= get_ufm_svn(svn') /\ activeSvn <= get_ufm_svn(svn')
<1>1. get_ufm_svn(svn) \in 0..SVN_MAX
  BY SvnType
<1>2. /\ get_ufm_svn(svn') \in 0..SVN_MAX /\ get_ufm_svn(svn') >= get_ufm_svn(svn)
  BY RaisesFacts
<1>3. top \in 0..SVN_MAX /\ activeSvn \in 0..SVN_MAX
  BY DEF IInv, TypeOK
<1>4. top <= get_ufm_svn(svn) /\ activeSvn <= get_ufm_svn(svn)
  BY DEF IInv, PolicyKept
<1> QED BY <1>1, <1>2, <1>3, <1>4 DEF SVN_MAX

LEMMA TwoEvents ==
  ASSUME NEW a \in Events, NEW b \in Events, NEW c \in Events
  PROVE  Tail(<<a, b>>) = <<b>> /\ Tail(<<a>>) = <<>> /\ Append(Tail(<<a, b>>), c) = <<b, c>>
<1>1. Tail(<<a, b>>) = <<b>> /\ Tail(<<a>>) = <<>>
  OBVIOUS
<1> DEFINE q == Append(<<b>>, c)
<1>2. <<b>> \in Seq(Events) /\ <<b, c>> \in Seq(Events)
  OBVIOUS
<1>3. q \in Seq(Events) /\ Len(q) = 2 /\ q[1] = b /\ q[2] = c
  BY <1>2
<1>4. Len(<<b, c>>) = 2 /\ \A i \in 1..2 : q[i] = <<b, c>>[i]
  BY <1>3
<1>5. q = <<b, c>>
  <2> HIDE DEF q
  <2> QED BY <1>2, <1>3, <1>4, SeqEqual
<1> QED BY <1>1, <1>5

LEMMA Queues ==
  /\ Append(Tail(<<VR, VA>>), RR) = <<VA, RR>> /\ Append(Tail(<<VA, RR>>), RA) = <<RR, RA>>
  /\ Tail(<<VA, RR>>) = <<RR>> /\ Tail(<<RR, RA>>) = <<RA>> /\ Tail(<<RR>>) = <<>>
<1> USE EventTypes
<1>1. Append(Tail(<<VR, VA>>), RR) = <<VA, RR>> BY TwoEvents
<1>2. Append(Tail(<<VA, RR>>), RA) = <<RR, RA>> BY TwoEvents
<1>3. Tail(<<VA, RR>>) = <<RR>> BY TwoEvents
<1>4. Tail(<<RR, RA>>) = <<RA>> BY TwoEvents
<1>5. Tail(<<RR>>) = <<>> BY TwoEvents
<1> QED BY <1>1, <1>2, <1>3, <1>4, <1>5

\* What is recorded stays recorded when the word is raised.
LEMMA RecordedStays ==
  ASSUME IInv, NEW c, Raises(c), NEW d, Recorded(d)
  PROVE  d \in Capsules /\ Image[d].svn <= get_ufm_svn(svn')
<1>1. Image[d].svn \in 0..SVN_MAX
  BY ImageFacts DEF Recorded
<1>2. get_ufm_svn(svn) \in 0..SVN_MAX
  BY SvnType
<1> QED BY <1>1, <1>2, RaisesFacts DEF Recorded, SVN_MAX

\* The BMC is released with versions that are recorded.
LEMMA ReleaseKept ==
  ASSUME IInv, NEW b \in BOOLEAN, Release(b), pfm \in Capsules, pfm' = pfm,
         Image[pfm].svn <= get_ufm_svn(svn'),
         b => recovery \in Capsules /\ Image[recovery].svn <= get_ufm_svn(svn'),
         Recordable(svn'), get_ufm_svn(svn') >= get_ufm_svn(svn)
  PROVE  /\ top' \in 0..SVN_MAX /\ top' <= get_ufm_svn(svn') /\ evq' \in Seq(Events)
         /\ pc' = "released" /\ ActiveMark' /\ RecoveryMark' /\ NoRecovery' /\ RewriteKept'
         /\ ReleasedKept' /\ LockdownIsHopeless'
<1>1. Image[pfm].svn \in 0..SVN_MAX /\ (b => Image[recovery].svn \in 0..SVN_MAX)
  BY ImageFacts
<1>2. get_ufm_svn(svn) \in 0..SVN_MAX /\ top \in 0..SVN_MAX /\ top <= get_ufm_svn(svn)
  BY SvnType DEF IInv, TypeOK, PolicyKept
<1>3. get_ufm_svn(svn') \in 0..SVN_MAX
  BY RecordableFacts
<1>4. top' \in 0..SVN_MAX /\ top' <= get_ufm_svn(svn')
  <2>1. top' = Larger(top, Larger(Image[pfm].svn, IF b THEN Image[recovery].svn ELSE 0))
    BY DEF Release
  <2>2. (IF b THEN Image[recovery].svn ELSE 0) \in 0..SVN_MAX
        /\ (IF b THEN Image[recovery].svn ELSE 0) <= get_ufm_svn(svn')
    BY <1>1, <1>3 DEF SVN_MAX
  <2>3. \A m, n \in 0..SVN_MAX : m <= get_ufm_svn(svn') /\ n <= get_ufm_svn(svn') =>
           Larger(m, n) \in 0..SVN_MAX /\ Larger(m, n) <= get_ufm_svn(svn')
    BY DEF Larger
  <2>4. top <= get_ufm_svn(svn')
    BY <1>2, <1>3 DEF SVN_MAX
  <2> QED BY <1>1, <1>2, <2>1, <2>2, <2>3, <2>4
<1>5. evq' = <<>> /\ pc' = "released"
  BY DEF Release
<1> QED BY <1>4, <1>5 DEF ActiveMark, RecoveryMark, NoRecovery, RewriteKept, ReleasedKept,
       LockdownIsHopeless, Judging, Rewriting, Recorded

\* The recovery capsule is verified.
LEMMA VerifyBackupKept == ASSUME IInv, VerifyBackup PROVE IInv'
<1> DEFINE ok == CapsuleVerifies(recovery, keys)
           r == IF ok THEN "Success" ELSE "Failure"
<1>1. /\ pc = "run" /\ evq # <<>> /\ Head(evq) = VR /\ evq \in Seq(Events)
      /\ UNCHANGED <<pages, pfm, recovery, staging, keys, due, activeSvn, job, page, gone, cut, left>>
      /\ Verified("recovery", ok, act, r)
  BY DEF VerifyBackup, Handles, VR, flashVars, IInv, TypeOK
<1>2. Raises(recovery) /\ (ok => recovery \in Capsules /\ svn' = Raised(svn, Image[recovery].svn))
  BY DEF VerifyBackup, Raises, CapsuleVerifies
<1>3. /\ Recordable(svn') /\ svn' \in VersionWords /\ get_ufm_svn(svn') \in 0..SVN_MAX
      /\ get_ufm_svn(svn') >= get_ufm_svn(svn)
      /\ ok => recovery \in Capsules /\ Image[recovery].svn <= get_ufm_svn(svn')
  BY <1>2, RaisesFacts
<1>4. act' = act /\ rec' = r /\ act' \in Status /\ rec' \in Status
  BY <1>1 DEF Verified, IInv, TypeOK, Status
<1>5. evq[1] = VR /\ Tail(evq) \in Seq(Events) /\ Len(evq) >= 1
  BY <1>1
<1>6. top' \in 0..SVN_MAX /\ top' <= get_ufm_svn(svn') /\ evq' \in Seq(Events)
      /\ pc' \in {"run", "released"} => (TypeOK' /\ PolicyKept')
  <2>1. activeSvn <= get_ufm_svn(svn')
    BY <1>2, HistoryStays
  <2> QED BY <1>1, <1>3, <1>4, <2>1 DEF IInv, TypeOK, PolicyKept
<1>7. CASE ok /\ act = "Success"
  <2>1. Release(TRUE)
    BY <1>1, <1>7 DEF Verified
  <2>2. pfm \in Capsules /\ Image[pfm].svn <= get_ufm_svn(svn')
    <3>1. Recorded(pfm) \/ (pfm \in Capsules /\ pfm = recovery)
      BY <1>1, <1>7 DEF IInv, ActiveMark, Judging
    <3> QED BY <1>2, <1>3, <1>7, <3>1, RecordedStays
  <2> QED BY <1>1, <1>3, <1>6, <1>7, <2>1, <2>2, ReleaseKept DEF IInv
<1>8. CASE ok /\ act # "Success"
  <2>1. pc' = "run" /\ evq' = Tail(evq) /\ top' = top
    BY <1>1, <1>8 DEF Verified
  <2>2. top' \in 0..SVN_MAX /\ top' <= get_ufm_svn(svn')
    BY <1>2, <2>1, HistoryStays DEF IInv, TypeOK
  <2>3. ActiveMark' /\ RecoveryMark' /\ NoRecovery' /\ RewriteKept' /\ ReleasedKept'
        /\ LockdownIsHopeless'
    BY <1>1, <1>3, <1>4, <1>8, <2>1
       DEF ActiveMark, RecoveryMark, NoRecovery, RewriteKept, ReleasedKept, LockdownIsHopeless,
           Judging, Rewriting, Recorded, CapsuleVerifies
  <2> QED BY <1>5, <1>6, <2>1, <2>2, <2>3 DEF IInv
<1>9. CASE ~ok
  <2>1. /\ pc' = "run" /\ evq' = Append(Tail(evq), RR) /\ top' = top /\ svn' = svn
    BY <1>1, <1>9 DEF Verified, RR, VerifyBackup
  <2>2. rec # "Success"
    BY <1>1, <1>9 DEF IInv, RecoveryMark, Judging
  <2>3. evq = <<VR, VA>> /\ act # "Success"
    BY <1>1, <1>5, <2>2, EventTypes DEF IInv, NoRecovery, Judging
  <2>4. evq' = <<VA, RR>>
    BY <2>1, <2>3, Queues
  <2>5. top' \in 0..SVN_MAX /\ top' <= get_ufm_svn(svn') /\ evq' \in Seq(Events)
    BY <2>1, <2>4, EventTypes DEF IInv, TypeOK, PolicyKept
  <2>6. ActiveMark' /\ RecoveryMark' /\ NoRecovery' /\ RewriteKept' /\ ReleasedKept'
        /\ LockdownIsHopeless'
    BY <1>1, <1>4, <1>9, <2>1, <2>3, <2>4
       DEF ActiveMark, RecoveryMark, NoRecovery, RewriteKept, ReleasedKept, LockdownIsHopeless,
           Judging, Rewriting, CapsuleVerifies
  <2> QED BY <1>6, <2>1, <2>5, <2>6 DEF IInv
<1> QED BY <1>7, <1>8, <1>9

\* The active region is verified.
LEMMA VerifyActiveKept == ASSUME IInv, VerifyActive PROVE IInv'
<1> DEFINE signed == PfmVerifies(pfm, keys)
           ok == signed /\ PagesMatch(pages, pfm)
           a == IF ok THEN "Success" ELSE "Failure"
<1>1. /\ pc = "run" /\ evq # <<>> /\ Head(evq) = VA /\ evq \in Seq(Events)
      /\ UNCHANGED <<pages, pfm, recovery, staging, keys, due, job, page, gone, cut, left>>
      /\ Verified("active", ok, a, rec)
      /\ activeSvn' = IF signed THEN Image[pfm].svn ELSE activeSvn
  BY DEF VerifyActive, Handles, VA, flashVars, IInv, TypeOK
<1>2. Raises(pfm) /\ (signed => pfm \in Capsules /\ svn' = Raised(svn, Image[pfm].svn))
  BY DEF VerifyActive, Raises, PfmVerifies
<1>3. /\ Recordable(svn') /\ svn' \in VersionWords /\ get_ufm_svn(svn') \in 0..SVN_MAX
      /\ get_ufm_svn(svn') >= get_ufm_svn(svn)
      /\ signed => pfm \in Capsules /\ Image[pfm].svn <= get_ufm_svn(svn')
  BY <1>2, RaisesFacts
<1>4. act' = a /\ rec' = rec /\ act' \in Status /\ rec' \in Status
  BY <1>1 DEF Verified, IInv, TypeOK, Status
<1>5. evq[1] = VA /\ Tail(evq) \in Seq(Events) /\ Len(evq) >= 1
  BY <1>1
<1>6. activeSvn' \in 0..SVN_MAX /\ activeSvn' <= get_ufm_svn(svn')
  BY <1>1, <1>2, <1>3, HistoryStays, ImageFacts DEF IInv, TypeOK
<1>7. top' \in 0..SVN_MAX /\ top' <= get_ufm_svn(svn') /\ evq' \in Seq(Events)
      /\ pc' \in {"run", "released"} => (TypeOK' /\ PolicyKept')
  BY <1>1, <1>3, <1>4, <1>6 DEF IInv, TypeOK, PolicyKept
<1>8. rec = "Success" => CapsuleVerifies(recovery, keys) /\ Recorded(recovery)
  BY <1>1, <1>5, EventTypes DEF IInv, RecoveryMark, Judging, Pending
<1>9. rec # "Success" =>
        evq = <<VA, RR>> /\ act # "Success" /\ ~CapsuleVerifies(recovery, keys)
  BY <1>1, <1>5, EventTypes DEF IInv, NoRecovery, Judging
<1>10. CASE ok /\ rec = "Success"
  <2>1. Release(TRUE)
    BY <1>1, <1>10 DEF Verified
  <2>2. recovery \in Capsules /\ Image[recovery].svn <= get_ufm_svn(svn')
    BY <1>2, <1>8, <1>10, RecordedStays
  <2> QED BY <1>1, <1>3, <1>7, <1>10, <2>1, <2>2, ReleaseKept DEF IInv
<1>11. CASE ok /\ rec # "Success"
  <2>1. pc' = "run" /\ evq' = Tail(evq) /\ top' = top
    BY <1>1, <1>11 DEF Verified
  <2>2. evq' = <<RR>> /\ evq' \in Seq(Events)
    BY <1>5, <1>9, <1>11, <2>1, Queues
  <2>3. top' \in 0..SVN_MAX /\ top' <= get_ufm_svn(svn')
    BY <1>2, <2>1, HistoryStays DEF IInv, TypeOK
  <2>4. ActiveMark' /\ RecoveryMark' /\ NoRecovery' /\ RewriteKept' /\ ReleasedKept'
        /\ LockdownIsHopeless'
    BY <1>1, <1>3, <1>4, <1>9, <1>11, <2>1, <2>2
       DEF ActiveMark, RecoveryMark, NoRecovery, RewriteKept, ReleasedKept, LockdownIsHopeless,
           Judging, Rewriting, Recorded
  <2> QED BY <1>7, <2>1, <2>2, <2>3, <2>4 DEF IInv
<1>12. CASE ~ok
  <2>1. pc' = "run" /\ evq' = Append(Tail(evq), RA) /\ top' = top
    BY <1>1, <1>12 DEF Verified, RA
  <2>2. top' \in 0..SVN_MAX /\ top' <= get_ufm_svn(svn') /\ evq' \in Seq(Events)
    BY <1>2, <1>5, <2>1, HistoryStays, EventTypes DEF IInv, TypeOK
  <2>3. ~Boots /\ act' # "Success"
    BY <1>4, <1>12 DEF Boots
  <2>4. CASE rec = "Success"
    <3>1. recovery \in Capsules /\ Image[recovery].svn <= get_ufm_svn(svn')
      BY <1>2, <1>8, <2>4, RecordedStays
    <3>2. ActiveMark' /\ RecoveryMark' /\ NoRecovery' /\ RewriteKept' /\ ReleasedKept'
          /\ LockdownIsHopeless'
      BY <1>1, <1>4, <1>8, <2>1, <2>3, <2>4, <3>1
         DEF ActiveMark, RecoveryMark, NoRecovery, RewriteKept, ReleasedKept, LockdownIsHopeless,
             Judging, Rewriting, Recorded
    <3> QED BY <1>7, <2>1, <2>2, <3>2 DEF IInv
  <2>5. CASE rec # "Success"
    <3>1. evq' = <<RR, RA>>
      BY <1>9, <2>1, <2>5, Queues
    <3>2. ActiveMark' /\ RecoveryMark' /\ NoRecovery' /\ RewriteKept' /\ ReleasedKept'
          /\ LockdownIsHopeless'
      BY <1>1, <1>4, <1>9, <2>1, <2>3, <2>5, <3>1
         DEF ActiveMark, RecoveryMark, NoRecovery, RewriteKept, ReleasedKept, LockdownIsHopeless,
             Judging, Rewriting, Boots
    <3> QED BY <1>7, <2>1, <2>2, <3>2 DEF IInv
  <2> QED BY <2>4, <2>5
<1> QED BY <1>10, <1>11, <1>12

\* A recovery begins.
LEMMA RecoverRecoveryKept == ASSUME IInv, RecoverRecovery PROVE IInv'
<1>1. /\ pc = "run" /\ evq # <<>> /\ evq \in Seq(Events) /\ Head(evq) \in {RR, RA}
      /\ rec # "Success" /\ StagedForRecovery
      /\ job' = [region |-> "recovery", from |-> "staging", why |-> "recover"]
      /\ pc' = "copy" /\ evq' = Tail(evq)
      /\ UNCHANGED <<pages, pfm, recovery, staging, svn, keys, due, act, rec, activeSvn, page,
                     top, gone, cut, left>>
  BY DEF RecoverRecovery, Handles, RR, RA, flashVars, policyVars, historyVars, IInv, TypeOK, Regions
<1>2. \/ evq = <<RR, RA>> /\ act # "Success"
      \/ evq = <<RR>> /\ act = "Success"
  BY <1>1, EventTypes DEF IInv, NoRecovery, Judging
<1>3. \/ evq' = <<RA>> /\ act # "Success"
      \/ evq' = <<>> /\ act = "Success"
  BY <1>1, <1>2, Queues
<1>4. evq' \in Seq(Events) /\ job' \in Jobs
  BY <1>1 DEF Jobs, Regions
<1>5. TypeOK' /\ PolicyKept'
  BY <1>1, <1>4 DEF IInv, TypeOK, PolicyKept
<1>6. CapsuleVerifies(staging, keys) /\ (act = "Success" => activeSvn = Image[staging].svn)
  BY <1>1 DEF StagedForRecovery
<1>7. NoRecovery' /\ RecoveryMark' /\ ReleasedKept' /\ LockdownIsHopeless'
  BY <1>1, <1>3, <1>6 DEF NoRecovery, RecoveryMark, ReleasedKept, LockdownIsHopeless
<1>8. RewriteKept'
  BY <1>1, <1>6 DEF RewriteKept, CapsuleVerifies
<1>9. ActiveMark'
  BY <1>1 DEF IInv, ActiveMark, Judging, Recorded
<1> QED BY <1>5, <1>7, <1>8, <1>9 DEF IInv

LEMMA RecoverActiveKept == ASSUME IInv, RecoverActive PROVE IInv'
<1>1. /\ pc = "run" /\ evq # <<>> /\ evq \in Seq(Events) /\ Head(evq) \in {RR, RA}
      /\ rec = "Success" /\ act # "Success"
      /\ job' = [region |-> "active", from |-> "recovery", why |-> "recover"]
      /\ pc' = "erase" /\ page' = 0 /\ evq' = Tail(evq)
      /\ UNCHANGED <<pages, pfm, recovery, staging, svn, keys, due, act, rec, activeSvn,
                     top, gone, cut, left>>
  BY DEF RecoverActive, Handles, RR, RA, flashVars, policyVars, historyVars, IInv, TypeOK, Regions
<1>2. evq' \in Seq(Events) /\ job' \in Jobs /\ page' \in Pages
  BY <1>1, VersionsAssumption DEF Jobs, Regions, Pages
<1>3. TypeOK' /\ PolicyKept'
  BY <1>1, <1>2 DEF IInv, TypeOK, PolicyKept
<1>4. CapsuleVerifies(recovery, keys) /\ (Recorded(recovery) \/ Pending(evq))
  BY <1>1 DEF IInv, RecoveryMark, Judging
<1>5. Pending(evq) => Pending(evq')
  <2> SUFFICES ASSUME Pending(evq) PROVE Pending(evq')
    OBVIOUS
  <2>1. evq[1] # VR
    BY <1>1, EventTypes
  <2>2. Len(evq) >= 2 /\ evq[2] = VR
    BY <2>1 DEF Pending
  <2>3. Len(evq') >= 1 /\ evq'[1] = VR
    BY <1>1, <2>2
  <2> QED BY <2>3 DEF Pending
<1>6. RecoveryMark'
  BY <1>1, <1>4, <1>5 DEF RecoveryMark, Recorded, CapsuleVerifies
<1>7. ActiveMark' /\ NoRecovery' /\ ReleasedKept' /\ LockdownIsHopeless' /\ RewriteKept'
  BY <1>1 DEF ActiveMark, NoRecovery, ReleasedKept, LockdownIsHopeless, RewriteKept
<1> QED BY <1>3, <1>6, <1>7 DEF IInv

\* Without a capsule to recover from the BMC is released as it is or locked down.
LEMMA RecoverFailsKept == ASSUME IInv, RecoverFails PROVE IInv'
<1>1. /\ pc = "run" /\ evq # <<>> /\ evq \in Seq(Events) /\ Head(evq) \in {RR, RA}
      /\ rec # "Success" /\ ~StagedForRecovery
      /\ UNCHANGED <<pages, pfm, recovery, staging, svn, keys, due, act, rec, activeSvn, job, page,
                     gone, cut, left>>
  BY DEF RecoverFails, Handles, RR, RA, flashVars, policyVars, historyVars, IInv, TypeOK, Regions
<1>2. CASE act = "Success"
  <2>1. Release(FALSE)
    BY <1>2 DEF RecoverFails
  <2>2. Recorded(pfm)
    BY <1>1, <1>2 DEF IInv, ActiveMark, Judging
  <2>3. Recordable(svn') /\ get_ufm_svn(svn') \in 0..SVN_MAX
    BY <1>1, SvnType DEF IInv, PolicyKept
  <2>4. get_ufm_svn(svn') >= get_ufm_svn(svn)
    <3>1. get_ufm_svn(svn') = get_ufm_svn(svn)
      BY <1>1
    <3> QED BY <2>3, <3>1 DEF SVN_MAX
  <2>5. /\ top' \in 0..SVN_MAX /\ top' <= get_ufm_svn(svn') /\ evq' \in Seq(Events)
        /\ pc' = "released" /\ ActiveMark' /\ RecoveryMark' /\ NoRecovery' /\ RewriteKept'
        /\ ReleasedKept' /\ LockdownIsHopeless'
    BY <1>1, <2>1, <2>2, <2>3, <2>4, ReleaseKept DEF Recorded
  <2>6. TypeOK' /\ PolicyKept'
    BY <1>1, <2>5 DEF IInv, TypeOK, PolicyKept
  <2> QED BY <2>5, <2>6 DEF IInv
<1>3. CASE act # "Success"
  <2>1. pc' = "lockdown" /\ evq' = <<>> /\ top' = top
    BY <1>3 DEF RecoverFails
  <2>2. TypeOK' /\ PolicyKept'
    BY <1>1, <2>1 DEF IInv, TypeOK, PolicyKept
  <2>3. evq = <<RR, RA>> /\ ~CapsuleVerifies(recovery, keys) /\ ~Boots
    BY <1>1, <1>3, EventTypes DEF IInv, NoRecovery, Judging
  <2>4. ~CapsuleVerifies(staging, keys)
    BY <1>1, <1>3 DEF StagedForRecovery
  <2>5. LockdownIsHopeless'
    BY <1>1, <2>3, <2>4 DEF LockdownIsHopeless, Boots
  <2>6. ActiveMark' /\ RecoveryMark' /\ NoRecovery' /\ RewriteKept' /\ ReleasedKept'
    BY <2>1 DEF ActiveMark, RecoveryMark, NoRecovery, RewriteKept, ReleasedKept, Judging, Rewriting
  <2> QED BY <2>2, <2>5, <2>6 DEF IInv
<1> QED BY <1>2, <1>3

\* An accepted update records a version that is not below any recorded before.
LEMMA AcceptedSvn ==
  ASSUME IInv, NEW region \in Regions, Accepts(region)
  PROVE  /\ staging \in Capsules /\ Image[staging].svn \in 0..SVN_MAX
         /\ Image[staging].svn >= get_ufm_svn(svn)
         /\ Recordable(set_ufm_svn(Image[staging].svn))
         /\ get_ufm_svn(set_ufm_svn(Image[staging].svn)) = Image[staging].svn
<1>1. staging \in Capsules /\ Image[staging].svn \in 0..SVN_MAX
  BY ImageFacts DEF Accepts, CapsuleVerifies
<1>2. get_ufm_svn(svn) \in 0..SVN_MAX /\ Recordable(svn)
  BY SvnType DEF IInv, PolicyKept
<1>3. Image[staging].svn >= get_ufm_svn(svn)
  <2>1. CASE region = "active"
    <3>1. recovery \in Capsules /\ Image[recovery].svn \in 0..SVN_MAX
      BY <2>1, ImageFacts DEF Accepts, CapsuleVerifies
    <3>2. /\ get_ufm_svn(Raised(svn, Image[recovery].svn)) \in 0..SVN_MAX
          /\ get_ufm_svn(Raised(svn, Image[recovery].svn)) >= get_ufm_svn(svn)
      BY <1>2, <3>1, RaisedFacts
    <3>3. Image[staging].svn >= get_ufm_svn(Raised(svn, Image[recovery].svn))
      BY <2>1 DEF Accepts, SvnToMeet
    <3> QED BY <1>1, <1>2, <3>2, <3>3 DEF SVN_MAX
  <2>2. CASE region # "active"
    BY <2>2 DEF Accepts, SvnToMeet
  <2> QED BY <2>1, <2>2
<1> QED BY <1>1, <1>3, SvnRoundTrip DEF Recordable

LEMMA UpdateBeginsKept ==
  ASSUME IInv, NEW region \in Regions, NEW why \in {"deferred", "event"},
         UpdateBegins(region, why)
  PROVE  IInv' /\ get_ufm_svn(svn') >= get_ufm_svn(svn)
<1>1. /\ Accepts(region) /\ svn' = set_ufm_svn(Image[staging].svn)
      /\ job' = [region |-> region, from |-> "staging", why |-> why]
      /\ pc' = (IF region = "active" THEN "erase" ELSE "copy") /\ page' = 0
      /\ UNCHANGED <<pages, pfm, recovery, staging, keys, due, act, rec, activeSvn, evq,
                     top, gone, cut, left>>
  BY DEF UpdateBegins, flashVars, historyVars
<1>2. /\ staging \in Capsules /\ Image[staging].svn \in 0..SVN_MAX
      /\ get_ufm_svn(svn') = Image[staging].svn /\ get_ufm_svn(svn') >= get_ufm_svn(svn)
      /\ Recordable(svn')
  BY <1>1, AcceptedSvn
<1>3. svn' \in VersionWords
  BY <1>2, RecordableFacts
<1>4. PolicyKept'
  <2>1. top' <= get_ufm_svn(svn') /\ activeSvn' <= get_ufm_svn(svn')
    <3>1. top \in 0..SVN_MAX /\ activeSvn \in 0..SVN_MAX /\ get_ufm_svn(svn) \in 0..SVN_MAX
      BY SvnType DEF IInv, TypeOK
    <3>2. top <= get_ufm_svn(svn) /\ activeSvn <= get_ufm_svn(svn)
      BY DEF IInv, PolicyKept
    <3> QED BY <1>1, <1>2, <3>1, <3>2 DEF SVN_MAX
  <2> QED BY <1>1, <1>2, <2>1 DEF IInv, PolicyKept
<1>5. TypeOK'
  <2>1. job' \in Jobs /\ page' \in Pages
    BY <1>1, VersionsAssumption DEF Jobs, Pages
  <2> QED BY <1>1, <1>3, <2>1 DEF IInv, TypeOK
<1>6. RewriteKept'
  BY <1>1, <1>2 DEF RewriteKept, Accepts, CapsuleVerifies, Regions
<1>7. /\ ActiveMark' /\ RecoveryMark' /\ NoRecovery' /\ ReleasedKept' /\ LockdownIsHopeless'
  BY <1>1 DEF ActiveMark, RecoveryMark, NoRecovery, ReleasedKept, LockdownIsHopeless, Judging
<1> QED BY <1>2, <1>4, <1>5, <1>6, <1>7 DEF IInv

LEMMA UpdateRefusedKept ==
  ASSUME IInv, NEW region, NEW why, UpdateRefused(region, why)
  PROVE  IInv' /\ get_ufm_svn(svn') >= get_ufm_svn(svn)
<1>1. Raises(recovery)
  BY DEF UpdateRefused, SvnToMeet, Raises, CapsuleVerifies
<1>2. /\ Recordable(svn') /\ svn' \in VersionWords /\ get_ufm_svn(svn') >= get_ufm_svn(svn)
      /\ top <= get_ufm_svn(svn') /\ activeSvn <= get_ufm_svn(svn')
  BY <1>1, RaisesFacts, HistoryStays
<1>3. /\ due' \in SUBSET Regions /\ act' \in Status /\ rec' \in Status
      /\ activeSvn' = activeSvn /\ evq' \in Seq(Events) /\ pc' \in {"run", "publish"}
  BY UpdateEndsType DEF UpdateRefused, IInv
<1>4. /\ UNCHANGED <<pages, pfm, recovery, staging, keys, job, page, top, gone, cut, left>>
      /\ UpdateEnds(why, FALSE)
  BY DEF UpdateRefused, flashVars, historyVars
<1>5. TypeOK' /\ PolicyKept'
  BY <1>2, <1>3, <1>4 DEF IInv, TypeOK, PolicyKept
<1> QED BY <1>2, <1>4, <1>5, UpdateEndsKept

LEMMA CancelKeyKept == ASSUME IInv, NEW why, CancelKey(why) PROVE IInv'
<1> DEFINE kind == Cancelled[staging].kind
           id == Cancelled[staging].id
<1>1. /\ staging \in Cancels /\ keys' = cancel_kc_flag(keys, kind, id)
      /\ gone' = gone \cup {Cancelled[staging]} /\ UpdateEnds(why, TRUE)
      /\ UNCHANGED <<pages, pfm, recovery, staging, svn, job, page, top, cut, left>>
  BY DEF CancelKey, flashVars
<1>2. Cancelled[staging] \in [kind : Kinds, id : Nat] /\ kind \in Kinds /\ id \in Nat
  BY <1>1, VersionsAssumption
<1>3. keys' \in SUBSET KeyBits
  BY <1>1, <1>2, CancelBits DEF IInv, TypeOK
<1>4. /\ due' \in SUBSET Regions /\ act' \in Status /\ rec' \in Status
      /\ activeSvn' = activeSvn /\ evq' \in Seq(Events) /\ pc' \in {"run", "publish"}
  BY <1>1, UpdateEndsType DEF IInv
<1>5. gone' \in SUBSET [kind : Kinds, id : Nat]
  BY <1>1, <1>2 DEF IInv, TypeOK
<1>6. TypeOK'
  BY <1>1, <1>3, <1>4, <1>5 DEF IInv, TypeOK
<1>7. ASSUME NEW k \in gone' PROVE ~verify_kc_flag(keys', k.kind, k.id)
  <2>1. CASE k \in gone
    BY <1>1, <2>1, CancelOnlyRefuses DEF IInv, PolicyKept
  <2>2. CASE k = Cancelled[staging]
    BY <1>1, <1>2, <2>2, CancelRefuses
  <2> QED BY <1>1, <1>7, <2>1, <2>2
<1>8. PolicyKept'
  BY <1>1, <1>4, <1>7 DEF IInv, PolicyKept
<1> QED BY <1>1, <1>6, <1>8, UpdateEndsKept

\* What one step may do to the policy words.
Tightens ==
  /\ get_ufm_svn(svn') >= get_ufm_svn(svn)
  /\ \A k, i : verify_kc_flag(keys', k, i) => verify_kc_flag(keys, k, i)

LEMMA UnchangedTightens == ASSUME IInv, svn' = svn, keys' = keys PROVE Tightens
<1>1. get_ufm_svn(svn) \in 0..SVN_MAX /\ get_ufm_svn(svn') = get_ufm_svn(svn)
  BY SvnType
<1> QED BY <1>1 DEF Tightens, SVN_MAX

LEMMA UpdatesKept ==
  ASSUME IInv, NEW region \in Regions, NEW why \in {"deferred", "event"}, Updates(region, why)
  PROVE  IInv' /\ Tightens
<1>1. CASE UpdateBegins(region, why)
  <2>1. keys' = keys
    BY <1>1 DEF UpdateBegins
  <2> QED BY <1>1, <2>1, UpdateBeginsKept DEF Tightens
<1>2. CASE UpdateRefused(region, why)
  <2>1. keys' = keys
    BY <1>2 DEF UpdateRefused
  <2> QED BY <1>2, <2>1, UpdateRefusedKept DEF Tightens
<1>3. CASE CancelKey(why)
  <2>1. svn' = svn /\ keys' = cancel_kc_flag(keys, Cancelled[staging].kind, Cancelled[staging].id)
    BY <1>3 DEF CancelKey
  <2>2. get_ufm_svn(svn') >= get_ufm_svn(svn)
    <3>1. get_ufm_svn(svn) \in 0..SVN_MAX /\ get_ufm_svn(svn') = get_ufm_svn(svn)
      BY <2>1, SvnType
    <3> QED BY <3>1 DEF SVN_MAX
  <2>3. ASSUME NEW k, NEW i, verify_kc_flag(keys', k, i) PROVE verify_kc_flag(keys, k, i)
    BY <2>1, <2>3, CancelOnlyRefuses
  <2> QED BY <1>3, <2>2, <2>3, CancelKeyKept DEF Tightens
<1> QED BY <1>1, <1>2, <1>3 DEF Updates

LEMMA PublishKept == ASSUME IInv, Publish PROVE IInv' /\ Tightens
<1>1. CASE due # {} /\ Updates(DueRegion, "deferred")
  <2>1. DueRegion \in Regions
    BY DEF DueRegion, Regions
  <2> QED BY <1>1, <2>1, UpdatesKept
<1>2. CASE PublishBmcEvents /\ UNCHANGED <<flashVars, policyVars, due, job, page, historyVars, left>>
  <2>1. svn' = svn /\ keys' = keys
    BY <1>2 DEF policyVars
  <2>2. TypeOK' /\ PolicyKept'
    <3>1. <<VR, VA>> \in Seq(Events)
      BY EventTypes
    <3>2. evq' \in Seq(Events) /\ act' \in Status /\ rec' \in Status /\ pc' = "run"
          /\ activeSvn' = activeSvn
      BY <1>2, <3>1 DEF PublishBmcEvents, VR, VA, Status
    <3> QED BY <1>2, <3>2 DEF IInv, TypeOK, PolicyKept, flashVars, policyVars, historyVars
  <2> QED BY <1>2, <2>1, <2>2, PublishedKept, UnchangedTightens
<1> QED BY <1>1, <1>2 DEF Publish

\* Every step keeps the invariant and only tightens the policy.
LEMMA NextKept == ASSUME IInv, Next PROVE IInv' /\ Tightens
<1>1. CASE Publish
  BY <1>1, PublishKept
<1>2. CASE VerifyBackup
  <2>1. Raises(recovery) /\ keys' = keys
    BY <1>2 DEF VerifyBackup, Raises, CapsuleVerifies
  <2> QED BY <1>2, <2>1, VerifyBackupKept, RaisesFacts DEF Tightens
<1>3. CASE VerifyActive
  <2>1. Raises(pfm) /\ keys' = keys
    BY <1>3 DEF VerifyActive, Raises, PfmVerifies
  <2> QED BY <1>3, <2>1, VerifyActiveKept, RaisesFacts DEF Tightens
<1>4. CASE RecoverRecovery
  BY <1>4, RecoverRecoveryKept, UnchangedTightens DEF RecoverRecovery, policyVars
<1>5. CASE RecoverActive
  BY <1>5, RecoverActiveKept, UnchangedTightens DEF RecoverActive, policyVars
<1>6. CASE RecoverFails
  BY <1>6, RecoverFailsKept, UnchangedTightens DEF RecoverFails, policyVars
<1>7. CASE ErasePage
  BY <1>7, ErasePageKept, UnchangedTightens DEF ErasePage, policyVars
<1>8. CASE WritePage
  BY <1>8, WritePageKept, UnchangedTightens DEF WritePage, policyVars
<1>9. CASE EraseTarget
  BY <1>9, EraseTargetKept, UnchangedTightens DEF EraseTarget, policyVars
<1>10. CASE WriteTarget
  BY <1>10, WriteTargetKept, UnchangedTightens DEF WriteTarget, policyVars
<1>11. ASSUME NEW r \in Regions, UpdateNow(r) PROVE IInv' /\ Tightens
  BY <1>11, UpdatesKept DEF UpdateNow
<1>12. ASSUME NEW rs \in SUBSET Regions, UpdateAtReset(rs) PROVE IInv' /\ Tightens
  BY <1>12, UpdateAtResetKept, UnchangedTightens DEF UpdateAtReset, policyVars
<1>13. ASSUME NEW c \in Capsules \cup Cancels \cup {Bad}, Stage(c) PROVE IInv' /\ Tightens
  BY <1>13, StageKept, UnchangedTightens DEF Stage, policyVars
<1>14. CASE Corrupt
  BY <1>14, CorruptKept, UnchangedTightens DEF Corrupt, policyVars
<1>15. CASE Reset
  BY <1>15, ResetKept, UnchangedTightens DEF Reset, policyVars
<1> QED BY <1>1, <1>2, <1>3, <1>4, <1>5, <1>6, <1>7, <1>8, <1>9, <1>10, <1>11, <1>12, <1>13,
           <1>14, <1>15 DEF Next, Work, Bmc

LEMMA StutterKept == ASSUME IInv, UNCHANGED vars PROVE IInv' /\ Tightens
<1>1. svn' = svn /\ keys' = keys
  BY DEF vars
<1>2. TypeOK'
  BY DEF vars, IInv, TypeOK
<1>3. PolicyKept' /\ ReleasedKept' /\ LockdownIsHopeless'
  BY DEF vars, IInv, PolicyKept, ReleasedKept, LockdownIsHopeless, Recorded, CapsuleVerifies,
         PfmVerifies, PagesMatch
<1>4. ActiveMark' /\ RecoveryMark'
  BY DEF vars, IInv, ActiveMark, RecoveryMark, Judging, Rewriting, Recorded, CapsuleVerifies, Pending
<1>5. NoRecovery' /\ RewriteKept'
  BY DEF vars, IInv, NoRecovery, RewriteKept, Judging, Rewriting, CapsuleVerifies, Boots,
         PfmVerifies, PagesMatch
<1> QED BY <1>1, <1>2, <1>3, <1>4, <1>5, UnchangedTightens DEF IInv

-----------------------------------------------------------------------------
(* An update that was cut off                                              *)

\* An update may begin, is going on, or was cut off: from here on no version that
\* flash may yet reveal is above both the word and the staged capsule.
AtStake == due # {} \/ cut \/ pc = "released" \/ (Rewriting /\ job.why # "recover")

\* What would verify is recorded already, or is a copy of the staged capsule.
KnownVersions ==
  AtStake => /\ CapsuleVerifies(recovery, keys) => Recorded(recovery) \/ recovery = staging
             /\ PfmVerifies(pfm, keys) => Recorded(pfm) \/ pfm = staging

\* The recovery capsule behind a running BMC is recorded or does not verify.
BackupKnown == pc = "released" /\ CapsuleVerifies(recovery, keys) => Recorded(recovery)

CInv == IInv /\ KnownVersions /\ BackupKnown /\ CutUpdateRepeats

\* What a step that only tightens the policy leaves recorded and refused.
LEMMA TightensKeeps ==
  ASSUME IInv, IInv', Tightens
  PROVE  /\ \A c : Recorded(c) => c \in Capsules /\ Image[c].svn <= get_ufm_svn(svn')
         /\ \A c : CapsuleVerifies(c, keys') => CapsuleVerifies(c, keys)
         /\ \A c : PfmVerifies(c, keys') => PfmVerifies(c, keys)
<1>1. get_ufm_svn(svn) \in 0..SVN_MAX /\ get_ufm_svn(svn') >= get_ufm_svn(svn)
  BY SvnType DEF Tightens
<1>2. get_ufm_svn(svn') \in 0..SVN_MAX
  BY RecordableFacts DEF IInv, PolicyKept
<1>3. ASSUME NEW c, Recorded(c) PROVE c \in Capsules /\ Image[c].svn <= get_ufm_svn(svn')
  <2>1. c \in Capsules /\ Image[c].svn \in 0..SVN_MAX /\ Image[c].svn <= get_ufm_svn(svn)
    BY <1>3, ImageFacts DEF Recorded
  <2> QED BY <1>1, <1>2, <2>1 DEF SVN_MAX
<1> QED BY <1>3 DEF Tightens, CapsuleVerifies, PfmVerifies

\* A step that leaves PFM and capsules alone keeps what is known of them.
LEMMA SteadyKnown ==
  ASSUME CInv, IInv', Tightens, UNCHANGED <<pfm, recovery, staging>>, AtStake' => AtStake
  PROVE  KnownVersions'
<1>1. /\ \A c : Recorded(c) => c \in Capsules /\ Image[c].svn <= get_ufm_svn(svn')
      /\ \A c : CapsuleVerifies(c, keys') => CapsuleVerifies(c, keys)
      /\ \A c : PfmVerifies(c, keys') => PfmVerifies(c, keys)
  BY TightensKeeps DEF CInv
<1>2. SUFFICES ASSUME AtStake' 
      PROVE /\ CapsuleVerifies(recovery', keys') => Recorded(recovery)' \/ recovery' = staging'
            /\ PfmVerifies(pfm', keys') => Recorded(pfm)' \/ pfm' = staging'
  BY DEF KnownVersions
<1>3. /\ CapsuleVerifies(recovery, keys) => Recorded(recovery) \/ recovery = staging
      /\ PfmVerifies(pfm, keys) => Recorded(pfm) \/ pfm = staging
  BY <1>2 DEF CInv, KnownVersions
<1>4. CapsuleVerifies(recovery', keys') => Recorded(recovery)' \/ recovery' = staging'
  BY <1>1, <1>3 DEF Recorded
<1>5. PfmVerifies(pfm', keys') => Recorded(pfm)' \/ pfm' = staging'
  BY <1>1, <1>3 DEF Recorded
<1> QED BY <1>4, <1>5

\* A release knows the versions it releases.
LEMMA ReleasedKnown ==
  ASSUME IInv', pc' = "released", BackupKnown'
  PROVE  KnownVersions'
<1>1. PfmVerifies(pfm', keys') => Recorded(pfm)'
  BY DEF IInv, ReleasedKept, PfmVerifies, Recorded
<1>2. CapsuleVerifies(recovery', keys') => Recorded(recovery)'
  BY DEF BackupKnown
<1> QED BY <1>1, <1>2 DEF KnownVersions

\* While an update may be repeated, raising the word by a known version does
\* not exceed the staged one.
LEMMA RaiseBelowStaged ==
  ASSUME CInv, NEW c, Raises(c), cut, UNCHANGED <<staging, keys>>,
         svn' # svn => Recorded(c) \/ c = staging
  PROVE  CutUpdateRepeats'
<1>1. CapsuleVerifies(staging, keys) /\ Image[staging].svn >= get_ufm_svn(svn)
  BY DEF CInv, CutUpdateRepeats
<1>2. Image[staging].svn \in 0..SVN_MAX /\ get_ufm_svn(svn) \in 0..SVN_MAX
  BY <1>1, ImageFacts, SvnType DEF CapsuleVerifies, CInv
<1>3. CASE svn' = svn
  BY <1>1, <1>3 DEF CutUpdateRepeats, CapsuleVerifies
<1>4. CASE svn' # svn
  <2>1. c \in Capsules /\ svn' = Raised(svn, Image[c].svn)
    BY <1>4 DEF Raises
  <2>2. Image[c].svn \in 0..SVN_MAX
    BY <2>1, ImageFacts
  <2>3. svn' = set_ufm_svn(Image[c].svn) /\ get_ufm_svn(svn) < Image[c].svn
    BY <1>4, <2>1 DEF Raised
  <2>4. get_ufm_svn(svn') = Image[c].svn
    BY <2>2, <2>3, SvnRoundTrip
  <2>5. c = staging
    BY <1>2, <1>4, <2>2, <2>3 DEF Recorded, SVN_MAX
  <2>6. Image[staging].svn >= get_ufm_svn(svn')
    BY <1>2, <2>4, <2>5 DEF SVN_MAX
  <2> QED BY <1>1, <2>6 DEF CutUpdateRepeats, CapsuleVerifies
<1> QED BY <1>3, <1>4

\* A step that leaves the word, the keys and the staged capsule alone.
LEMMA SameStaging ==
  ASSUME CInv, UNCHANGED <<staging, svn, keys>>, cut' => cut
  PROVE  CutUpdateRepeats'
  BY DEF CInv, CutUpdateRepeats, CapsuleVerifies

LEMMA VerifyBackupRepeats == ASSUME CInv, VerifyBackup, IInv', Tightens PROVE CInv'
<1> DEFINE ok == CapsuleVerifies(recovery, keys)
<1>1. /\ pc = "run" /\ UNCHANGED <<pfm, recovery, staging, keys, due, job, cut>>
      /\ pc' \in {"run", "released"} /\ Raises(recovery) /\ (~ok => svn' = svn)
      /\ ok => recovery \in Capsules /\ svn' = Raised(svn, Image[recovery].svn)
      /\ pc' = "released" => ok
  BY DEF VerifyBackup, Handles, flashVars, Verified, Release, Raises, CapsuleVerifies
<1>2. ok => Recorded(recovery)'
  BY <1>1, RaisesFacts DEF Recorded, CInv
<1>3. BackupKnown'
  BY <1>1, <1>2 DEF BackupKnown
<1>4. KnownVersions'
  <2>1. pc' # "released" => (AtStake' => AtStake)
    BY <1>1 DEF AtStake, Rewriting
  <2> QED BY <1>1, <1>3, <2>1, SteadyKnown, ReleasedKnown
<1>5. CutUpdateRepeats'
  <2>1. CASE cut
    <3>1. svn' # svn => Recorded(recovery) \/ recovery = staging
      BY <1>1, <2>1 DEF CInv, KnownVersions, AtStake
    <3> QED BY <1>1, <2>1, <3>1, RaiseBelowStaged
  <2>2. CASE ~cut
    BY <1>1, <2>2 DEF CutUpdateRepeats
  <2> QED BY <2>1, <2>2
<1> QED BY <1>3, <1>4, <1>5 DEF CInv

LEMMA VerifyActiveRepeats == ASSUME CInv, VerifyActive, IInv', Tightens PROVE CInv'
<1> DEFINE signed == PfmVerifies(pfm, keys)
<1>1. /\ pc = "run" /\ UNCHANGED <<pfm, recovery, staging, keys, due, job, cut>>
      /\ pc' \in {"run", "released"} /\ Raises(pfm) /\ (~signed => svn' = svn)
      /\ pc' = "released" => rec = "Success"
      /\ evq \in Seq(Events) /\ evq # <<>> /\ Head(evq) = VA
  BY DEF VerifyActive, Handles, VA, flashVars, Verified, Release, Raises, PfmVerifies, CInv, IInv,
         TypeOK
<1>2. pc' = "released" => Recorded(recovery)'
  <2> SUFFICES ASSUME pc' = "released" PROVE Recorded(recovery)'
    OBVIOUS
  <2>1. evq[1] = VA
    BY <1>1
  <2>2. Recorded(recovery)
    BY <1>1, <2>1, EventTypes DEF CInv, IInv, RecoveryMark, Judging, Pending
  <2>3. recovery \in Capsules /\ Image[recovery].svn <= get_ufm_svn(svn')
    BY <2>2, TightensKeeps DEF CInv
  <2> QED BY <1>1, <2>3 DEF Recorded
<1>3. BackupKnown'
  BY <1>2 DEF BackupKnown
<1>4. KnownVersions'
  <2>1. pc' # "released" => (AtStake' => AtStake)
    BY <1>1 DEF AtStake, Rewriting
  <2> QED BY <1>1, <1>3, <2>1, SteadyKnown, ReleasedKnown
<1>5. CutUpdateRepeats'
  <2>1. CASE cut
    <3>1. svn' # svn => Recorded(pfm) \/ pfm = staging
      BY <1>1, <2>1 DEF CInv, KnownVersions, AtStake
    <3> QED BY <1>1, <2>1, <3>1, RaiseBelowStaged
  <2>2. CASE ~cut
    BY <1>1, <2>2 DEF CutUpdateRepeats
  <2> QED BY <2>1, <2>2
<1> QED BY <1>3, <1>4, <1>5 DEF CInv

\* A recovery begins, or fails: a release without a recovery capsule is one whose
\* recovery capsule was found not to verify.
LEMMA RecoverRepeats ==
  ASSUME CInv, RecoverRecovery \/ RecoverActive \/ RecoverFails, IInv', Tightens
  PROVE  CInv'
<1>1. /\ pc = "run" /\ UNCHANGED <<pfm, recovery, staging, svn, keys, due, cut>>
      /\ job'.why = "recover" \/ pc' \in {"released", "lockdown"}
      /\ evq \in Seq(Events) /\ evq # <<>> /\ Head(evq) \in {RR, RA}
      /\ pc' = "released" => rec # "Success" /\ act = "Success"
  BY DEF RecoverRecovery, RecoverActive, RecoverFails, Handles, flashVars, policyVars, historyVars,
         Release, RR, RA, CInv, IInv, TypeOK, Regions
<1>2. pc' = "released" => ~CapsuleVerifies(recovery, keys)
  BY <1>1, EventTypes DEF CInv, IInv, NoRecovery, Judging
<1>3. BackupKnown'
  BY <1>1, <1>2 DEF BackupKnown
<1>4. KnownVersions'
  <2>1. pc' # "released" => (AtStake' => AtStake)
    BY <1>1 DEF AtStake, Rewriting
  <2> QED BY <1>1, <1>3, <2>1, SteadyKnown, ReleasedKnown
<1>5. CutUpdateRepeats'
  BY <1>1, SameStaging
<1> QED BY <1>3, <1>4, <1>5 DEF CInv

\* Regions are rewritten.
LEMMA RewriteRepeats ==
  ASSUME CInv, ErasePage \/ WritePage \/ EraseTarget, IInv', Tightens
  PROVE  CInv'
<1>1. /\ Rewriting /\ Rewriting' /\ UNCHANGED <<staging, svn, keys, due, cut, job>>
      /\ pfm' = pfm \/ pfm' = Bad
      /\ recovery' = recovery \/ recovery' = Bad
  BY DEF ErasePage, WritePage, EraseTarget, policyVars, historyVars, Rewriting
<1>2. Bad \notin Capsules
  BY VersionsAssumption
<1>3. pc' # "released" /\ pc # "released" /\ (AtStake' => AtStake)
  BY <1>1 DEF AtStake, Rewriting
<1>4. KnownVersions'
  BY <1>1, <1>2, <1>3 DEF CInv, KnownVersions, Recorded, CapsuleVerifies, PfmVerifies
<1>5. CutUpdateRepeats'
  BY <1>1, SameStaging
<1> QED BY <1>3, <1>4, <1>5 DEF CInv, BackupKnown

LEMMA WriteTargetRepeats == ASSUME CInv, WriteTarget, IInv', Tightens PROVE CInv'
<1>1. /\ Rewriting /\ UNCHANGED <<staging, svn, keys, job>>
      /\ pc' \in {"run", "publish"} /\ (cut' => cut)
      /\ due' # {} => due # {}
      /\ \/ pc = "pfmwrite" /\ pfm' = Source /\ recovery' = recovery
         \/ pc = "copywrite" /\ recovery' = Source /\ pfm' = pfm
  BY DEF WriteTarget, policyVars, Rewriting, Recovered, UpdateEnds, PublishBmcEvents
<1>2. pc' # "released" /\ pc # "released" /\ ~Rewriting' /\ (AtStake' => AtStake)
  BY <1>1 DEF AtStake, Rewriting
<1>3. CapsuleVerifies(Source, keys) /\ (Source = staging \/ Source = recovery)
  BY <1>1, SourceVerifies DEF CInv, Source
<1>4. pc = "copywrite" => Source = staging
  <2> SUFFICES ASSUME pc = "copywrite" PROVE job.from = "staging"
    BY DEF Source
  <2>1. job.region = "recovery"
    BY <1>1 DEF CInv, IInv, RewriteKept
  <2> QED BY <1>1, <2>1 DEF CInv, IInv, RewriteKept
<1>5. KnownVersions'
  <2> SUFFICES ASSUME AtStake'
      PROVE /\ CapsuleVerifies(recovery', keys') => Recorded(recovery)' \/ recovery' = staging'
            /\ PfmVerifies(pfm', keys') => Recorded(pfm)' \/ pfm' = staging'
    BY DEF KnownVersions
  <2>1. /\ CapsuleVerifies(recovery, keys) => Recorded(recovery) \/ recovery = staging
        /\ PfmVerifies(pfm, keys) => Recorded(pfm) \/ pfm = staging
    BY <1>2 DEF CInv, KnownVersions
  <2>2. CASE pc = "pfmwrite" /\ pfm' = Source /\ recovery' = recovery
    BY <1>1, <1>3, <2>1, <2>2 DEF Recorded, CapsuleVerifies
  <2>3. CASE pc = "copywrite" /\ recovery' = Source /\ pfm' = pfm
    BY <1>1, <1>4, <2>1, <2>3 DEF Recorded, PfmVerifies
  <2> QED BY <1>1, <2>2, <2>3
<1>6. CutUpdateRepeats'
  BY <1>1, SameStaging
<1> QED BY <1>2, <1>5, <1>6 DEF CInv, BackupKnown

\* Updates begin, are refused or cancel a key, while all versions are known.
LEMMA UpdatesRepeats ==
  ASSUME CInv, NEW region \in Regions, NEW why, Updates(region, why), AtStake, IInv', Tightens
  PROVE  CInv'
<1>0. KnownVersions'
  BY SteadyKnown DEF Updates, UpdateBegins, UpdateRefused, CancelKey, flashVars
<1>1. pc' # "released"
  BY DEF Updates, UpdateBegins, UpdateRefused, CancelKey, UpdateEnds, PublishBmcEvents
<1>2. CASE UpdateBegins(region, why)
  <2>1. svn' = set_ufm_svn(Image[staging].svn) /\ UNCHANGED <<staging, keys, cut>>
    BY <1>2 DEF UpdateBegins, flashVars, historyVars
  <2>2. Image[staging].svn \in 0..SVN_MAX /\ get_ufm_svn(svn') = Image[staging].svn
    BY <1>2, <2>1, AcceptedSvn DEF UpdateBegins, CInv
  <2>3. Image[staging].svn >= get_ufm_svn(svn')
    BY <2>2 DEF SVN_MAX
  <2> QED BY <1>0, <1>1, <2>1, <2>3 DEF CInv, BackupKnown, CutUpdateRepeats, CapsuleVerifies
<1>3. CASE UpdateRefused(region, why)
  <2>1. /\ UNCHANGED <<staging, recovery, keys, cut>> /\ Raises(recovery)
        /\ svn' # svn => CapsuleVerifies(recovery, keys)
    BY <1>3 DEF UpdateRefused, SvnToMeet, Raises, CapsuleVerifies, flashVars, historyVars
  <2>2. svn' # svn => Recorded(recovery) \/ recovery = staging
    BY <2>1 DEF CInv, KnownVersions
  <2>3. CutUpdateRepeats'
    <3>1. CASE cut
      BY <2>1, <2>2, <3>1, RaiseBelowStaged
    <3>2. CASE ~cut
      BY <2>1, <3>2 DEF CutUpdateRepeats
    <3> QED BY <3>1, <3>2
  <2> QED BY <1>0, <1>1, <2>3 DEF CInv, BackupKnown
<1>4. CASE CancelKey(why)
  <2>1. staging \notin Capsules /\ cut' = cut
    BY <1>4, VersionsAssumption DEF CancelKey
  <2>2. ~cut
    BY <2>1 DEF CInv, CutUpdateRepeats, CapsuleVerifies
  <2> QED BY <1>0, <1>1, <2>1, <2>2 DEF CInv, BackupKnown, CutUpdateRepeats
<1> QED BY <1>2, <1>3, <1>4 DEF Updates

\* The BMC stages, asks for updates and damages its flash; the HRoT is reset.
LEMMA BmcRepeats ==
  ASSUME CInv, IInv', Tightens,
         \/ \E rs \in SUBSET Regions : UpdateAtReset(rs)
         \/ \E c \in Capsules \cup Cancels \cup {Bad} : Stage(c)
         \/ Corrupt
  PROVE  CInv'
<1>1. /\ pc = "released" /\ pc' = "released" /\ UNCHANGED <<svn, keys>>
      /\ recovery' = recovery \/ recovery' = Bad
      /\ cut' => cut /\ staging' = staging
  BY DEF UpdateAtReset, Stage, Corrupt, flashVars, policyVars, historyVars
<1>2. Bad \notin Capsules
  BY VersionsAssumption
<1>3. BackupKnown'
  BY <1>1, <1>2 DEF CInv, BackupKnown, Recorded, CapsuleVerifies
<1>4. CutUpdateRepeats'
  BY <1>1 DEF CInv, CutUpdateRepeats, CapsuleVerifies
<1> QED BY <1>1, <1>3, <1>4, ReleasedKnown DEF CInv

LEMMA ResetRepeats == ASSUME CInv, Reset, IInv', Tightens PROVE CInv'
<1>1. /\ UNCHANGED <<pfm, recovery, staging, svn, keys, due>> /\ pc' = "publish"
      /\ cut' = (cut \/ (Rewriting /\ job.why # "recover"))
  BY DEF Reset, flashVars, policyVars
<1>2. KnownVersions'
  BY <1>1, SteadyKnown DEF AtStake, Rewriting
<1>3. CutUpdateRepeats'
  <2>1. CASE cut
    BY <1>1, <2>1 DEF CInv, CutUpdateRepeats, CapsuleVerifies
  <2>2. CASE Rewriting /\ job.why # "recover"
    <3>1. CapsuleVerifies(staging, keys) /\ Image[staging].svn = get_ufm_svn(svn)
      BY <2>2 DEF CInv, IInv, RewriteKept
    <3>2. get_ufm_svn(svn) >= get_ufm_svn(svn)
      BY SvnType DEF CInv, SVN_MAX
    <3> QED BY <1>1, <3>1, <3>2 DEF CutUpdateRepeats, CapsuleVerifies
  <2>3. CASE ~cut'
    BY <2>3 DEF CutUpdateRepeats
  <2> QED BY <1>1, <2>1, <2>2, <2>3
<1> QED BY <1>1, <1>2, <1>3 DEF CInv, BackupKnown

\* Every step keeps an update that was cut off repeatable.
LEMMA NextRepeats == ASSUME CInv, [Next]_vars PROVE CInv'
<1>0. IInv' /\ Tightens
  BY NextKept, StutterKept DEF CInv
<1>1. CASE UNCHANGED vars
  BY <1>0, <1>1 DEF vars, CInv, KnownVersions, BackupKnown, CutUpdateRepeats, AtStake, Rewriting,
     Recorded, CapsuleVerifies, PfmVerifies
<1>2. CASE Publish
  <2>1. CASE due # {} /\ Updates(DueRegion, "deferred")
    <3>1. DueRegion \in Regions /\ AtStake
      BY <2>1 DEF DueRegion, Regions, AtStake
    <3> QED BY <1>0, <2>1, <3>1, UpdatesRepeats
  <2>2. CASE /\ PublishBmcEvents
             /\ UNCHANGED <<flashVars, policyVars, due, job, page, historyVars, left>>
    <3>1. /\ UNCHANGED <<pfm, recovery, staging, svn, keys, due, cut>> /\ pc' = "run"
      BY <2>2 DEF PublishBmcEvents, flashVars, policyVars, historyVars
    <3>2. KnownVersions'
      BY <1>0, <3>1, SteadyKnown DEF AtStake, Rewriting
    <3>3. CutUpdateRepeats'
      BY <3>1, SameStaging
    <3> QED BY <1>0, <3>1, <3>2, <3>3 DEF CInv, BackupKnown
  <2> QED BY <1>2, <2>1, <2>2 DEF Publish
<1>3. ASSUME NEW r \in Regions, UpdateNow(r) PROVE CInv'
  BY <1>0, <1>3, UpdatesRepeats DEF UpdateNow, AtStake
<1>4. CASE Work /\ ~Publish
  BY <1>0, <1>4, VerifyBackupRepeats, VerifyActiveRepeats, RecoverRepeats, RewriteRepeats,
     WriteTargetRepeats DEF Work
<1>5. CASE Reset
  BY <1>0, <1>5, ResetRepeats
<1>6. CASE Bmc /\ ~\E r \in Regions : UpdateNow(r)
  BY <1>0, <1>6, BmcRepeats DEF Bmc
<1> QED BY <1>1, <1>2, <1>3, <1>4, <1>5, <1>6 DEF Next, Bmc

-----------------------------------------------------------------------------
(* Theorems                                                                *)

LEMMA AlwaysIInv == Spec => []IInv
<1>1. IInv /\ [Next]_vars => IInv'
  BY NextKept, StutterKept
<1> QED BY <1>1, InitKept, PTL DEF Spec

\* Authentication, recovery and update keep every variable in its domain.
THEOREM VersionsTypeCorrect == Spec => []TypeOK
<1>1. IInv => TypeOK
  BY DEF IInv
<1> QED BY <1>1, AlwaysIInv, PTL

\* A BMC that runs has its versions recorded in the UFM, wherever resets fell.
THEOREM RecordsWhatItReleases == Spec => []ReleasedIsRecorded
<1>1. IInv => ReleasedIsRecorded
  <2> SUFFICES ASSUME IInv, pc = "released" PROVE ReleasedIsRecorded
    BY DEF ReleasedIsRecorded
  <2>1. top \in 0..SVN_MAX /\ top <= get_ufm_svn(svn) /\ get_ufm_svn(svn) \in 0..SVN_MAX
    BY SvnType DEF IInv, TypeOK, PolicyKept
  <2>2. ASSUME pfm \in Capsules PROVE get_ufm_svn(svn) >= Image[pfm].svn
    <3>1. Image[pfm].svn \in 0..SVN_MAX
      BY <2>2, ImageFacts
    <3>2. Image[pfm].svn <= get_ufm_svn(svn)
      BY <2>2 DEF IInv, ReleasedKept, Recorded
    <3> QED BY <2>1, <3>1, <3>2 DEF SVN_MAX
  <2>3. get_ufm_svn(svn) >= top
    BY <2>1 DEF SVN_MAX
  <2> QED BY <2>2, <2>3 DEF ReleasedIsRecorded
<1> QED BY <1>1, AlwaysIInv, PTL

\* No update writes a capsule older than one the BMC ever ran with.
THEOREM NoUpdateGoesBack == Spec => []UpdateNotOlder
<1>1. IInv => UpdateNotOlder
  <2> SUFFICES ASSUME IInv, Rewriting, job.why # "recover" PROVE Image[Source].svn >= top
    BY DEF UpdateNotOlder
  <2>1. Source = staging /\ Image[staging].svn = get_ufm_svn(svn)
    BY DEF IInv, RewriteKept, Source
  <2>2. top \in 0..SVN_MAX /\ top <= get_ufm_svn(svn) /\ get_ufm_svn(svn) \in 0..SVN_MAX
    BY SvnType DEF IInv, TypeOK, PolicyKept
  <2> QED BY <2>1, <2>2 DEF SVN_MAX
<1> QED BY <1>1, AlwaysIInv, PTL

\* No capsule signed with a key that was cancelled is written any more.
THEOREM CancelledKeysStayUnused == Spec => []CancelledNotWritten
<1>1. IInv => CancelledNotWritten
  <2> SUFFICES ASSUME IInv, Rewriting PROVE CancelledNotWritten
    BY DEF CancelledNotWritten
  <2> DEFINE c == [kind |-> "BMC_CAPSULE", id |-> Image[Source].capsuleKey]
             p == [kind |-> "BMC_PFM", id |-> Image[Source].pfmKey]
  <2>1. verify_kc_flag(keys, c.kind, c.id) /\ verify_kc_flag(keys, p.kind, p.id)
    BY SourceVerifies DEF CapsuleVerifies
  <2>2. \A k \in gone : ~verify_kc_flag(keys, k.kind, k.id)
    BY DEF IInv, PolicyKept
  <2>3. c \notin gone /\ p \notin gone
    BY <2>1, <2>2
  <2> QED BY <2>3 DEF CancelledNotWritten
<1> QED BY <1>1, AlwaysIInv, PTL

\* Whatever is being rewritten, another region holds a capsule that authenticates.
THEOREM RewritingIsBacked == Spec => []RewritingHasBackup
<1>1. IInv => RewritingHasBackup
  <2> SUFFICES ASSUME IInv, Rewriting PROVE RewritingHasBackup
    BY DEF RewritingHasBackup
  <2>1. CASE job.why # "recover"
    BY <2>1 DEF IInv, RewriteKept, RewritingHasBackup
  <2>2. CASE job.why = "recover" /\ job.region = "active"
    BY <2>2 DEF IInv, RewriteKept, RecoveryMark, Judging, RewritingHasBackup
  <2>3. CASE job.why = "recover" /\ job.region = "recovery"
    BY <2>3 DEF IInv, RewriteKept, RewritingHasBackup
  <2> QED BY <2>1, <2>2, <2>3 DEF IInv, TypeOK, Jobs, Regions
<1> QED BY <1>1, AlwaysIInv, PTL

\* The BMC is locked down only when nothing in its flash could be booted.
THEOREM LocksDownOnlyWhenHopeless == Spec => []LockdownIsHopeless
<1>1. IInv => LockdownIsHopeless
  BY DEF IInv
<1> QED BY <1>1, AlwaysIInv, PTL

\* An update that a reset cut off can be made again as long as its capsule is
\* staged: nothing that is verified meanwhile raises the version above it.
THEOREM CutUpdatesRepeat == Spec => []CutUpdateRepeats
<1>1. Init => CInv
  BY InitKept DEF Init, CInv, KnownVersions, BackupKnown, CutUpdateRepeats, AtStake, Rewriting
<1>2. CInv => CutUpdateRepeats
  BY DEF CInv
<1> QED BY <1>1, <1>2, NextRepeats, PTL DEF Spec

\* The policy words change only as UfmStore allows.
THEOREM TightensThePolicy == Spec => PolicyOnlyTightens
<1>1. IInv => Policy \in [svn : 0..(SVN_MAX + 1),
                          cancelled : SUBSET {Cancelled[x] : x \in Cancels}]
  <2> SUFFICES ASSUME IInv
      PROVE Policy \in [svn : 0..(SVN_MAX + 1), cancelled : SUBSET {Cancelled[x] : x \in Cancels}]
    OBVIOUS
  <2>1. get_ufm_svn(svn) \in 0..(SVN_MAX + 1)
    BY SvnType DEF SVN_MAX
  <2> QED BY <2>1 DEF Policy
<1>2. Init => Store!Init
  BY <1>1, InitKept DEF Store!Init
<1>3. IInv /\ [Next]_vars => [Store!Next]_(Store!vars)
  <2> SUFFICES ASSUME IInv, [Next]_vars PROVE Store!Next
    OBVIOUS
  <2>1. IInv' /\ Tightens
    BY NextKept, StutterKept
  <2>2. Policy' \in [svn : 0..(SVN_MAX + 1), cancelled : SUBSET {Cancelled[x] : x \in Cancels}]
    <3>1. Recordable(svn')
      BY <2>1 DEF IInv, PolicyKept
    <3>2. get_ufm_svn(svn') \in 0..(SVN_MAX + 1)
      BY <3>1, RecordableFacts DEF SVN_MAX
    <3> QED BY <3>2 DEF Policy
  <2>3. Policy'.svn >= Policy.svn /\ Policy.cancelled \subseteq Policy'.cancelled
    BY <2>1 DEF Tightens, Policy
  <2>4. Store!Raise(Policy')
    BY <2>3 DEF Store!Raise
  <2> QED BY <2>2, <2>4 DEF Store!Next
<1> QED BY <1>2, <1>3, AlwaysIInv, PTL DEF Spec, PolicyOnlyTightens, Store!Spec
=============================================================================
