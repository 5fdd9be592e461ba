------------------------------ MODULE Versions ------------------------------
(***************************************************************************)
(* The firmware of the BMC: the active region (pages and PFM), recovery    *)
(* and staging capsules, and the security version and cancelled keys that  *)
(* decide which capsule may replace which.  Authentication, recovery,      *)
(* update and deferred update are the ones of intel_pfr_authentication.c,  *)
(* pfr_recovery.c, intel_pfr_recovery.c, intel_pfr_update.c and            *)
(* intel_pfr_pbc.c; Hrot has the interrupts, this module what the flash    *)
(* holds.  Every page that is erased or written is a step, so that a reset *)
(* may fall anywhere.  A change of the policy words is atomic, which is    *)
(* what UfmStore promises.                                                 *)
(***************************************************************************)
EXTENDS UfmPolicy, Sequences

CONSTANTS Capsules,     \* update capsules that authenticate
          Image,          \* what a capsule holds, see Contents
          Cancels,      \* key cancellation capsules that authenticate
          Cancelled,      \* the [kind, id] each of them names
          PageCount,    \* pages in the bit maps of a capsule
          MaxStage,     \* bound: capsules staged
          MaxReset,     \* bound: resets of the HRoT
          MaxCorrupt    \* bound: regions damaged while the BMC runs

Bad == "bad"        \* content that does not authenticate
Blank == "blank"    \* an erased page
Pages == 0..(PageCount - 1)

\* The PFM's version, the ids of the keys that signed capsule and PFM, the
\* pages the capsule erases (active bit map) and the ones it has data for
\* (compression bit map).
Contents == [svn : 0..SVN_MAX, capsuleKey : Nat, pfmKey : Nat,
             active : SUBSET Pages, data : SUBSET Pages]

ASSUME VersionsAssumption ==
  /\ Image \in [Capsules -> Contents]
  /\ \A c \in Capsules : Image[c].data \subseteq Image[c].active
  /\ Cancelled \in [Cancels -> [kind : Kinds, id : Nat]]
  /\ Capsules \cap Cancels = {} /\ {Bad, Blank} \cap (Capsules \cup Cancels) = {}
  /\ PageCount \in Nat \ {0}
  /\ MaxStage \in Nat /\ MaxReset \in Nat /\ MaxCorrupt \in Nat

Regions == {"active", "recovery"}
Status == {"Success", "Failure"}

\* The events of the two contexts BmcData[0] (recovery) and BmcData[1] (active).
Events == [kind : {"VERIFY", "RECOVERY"}, region : Regions]

\* What the main thread writes: a region, the capsule it comes from, and
\* whether the deferred update, an update event or a recovery asked for it.
Jobs == [region : Regions, from : {"staging", "recovery"},
         why : {"deferred", "event", "recover"}]
NoJob == [region |-> "active", from |-> "staging", why |-> "event"]

VARIABLES
  pages, pfm,         \* active region (persistent)
  recovery, staging,  \* capsules (persistent)
  svn, keys,          \* policy words of the UFM (persistent)
  due,                \* regions CPLD_STATUS wants updated (persistent)
  act, rec,           \* ActiveImageStatus, RecoveryImageStatus
  activeSvn,          \* mailbox register: version of the active PFM
  evq,                \* the event FIFO
  pc,                 \* where the main thread is
  job, page,          \* the rewriting that is going on and its page
  top,                \* history: highest version ever released
  gone,               \* history: [kind, id] of the cancellations carried out
  cut,                \* history: an update from staging was cut off by a reset
  left                \* what is left of the bounds

flashVars == <<pages, pfm, recovery, staging>>
policyVars == <<svn, keys>>
historyVars == <<top, gone, cut>>
vars == <<pages, pfm, recovery, staging, svn, keys, due, act, rec, activeSvn, evq,
          pc, job, page, top, gone, cut, left>>

-----------------------------------------------------------------------------
(* Authentication                                                          *)

\* intel_pfr_manifest_verify on a capsule and then on the PFM inside it.
CapsuleVerifies(c, ks) ==
  /\ c \in Capsules
  /\ verify_kc_flag(ks, "BMC_CAPSULE", Image[c].capsuleKey)
  /\ verify_kc_flag(ks, "BMC_PFM", Image[c].pfmKey)

PfmVerifies(c, ks) == c \in Capsules /\ verify_kc_flag(ks, "BMC_PFM", Image[c].pfmKey)

\* pfm_spi_region_verification: the pages are those of the image.
PagesMatch(ps, c) ==
  \A p \in Image[c].active : ps[p] = IF p \in Image[c].data THEN c ELSE Blank

\* Mutant: a version found in flash is not recorded.
NotRaised(w, n) == w

\* The end of pfm_version_set and get_recover_pfm_version_details.
Raised(w, n) == IF get_ufm_svn(w) < n THEN set_ufm_svn(n) ELSE w

Larger(m, n) == IF m > n THEN m ELSE n

-----------------------------------------------------------------------------
(* Start                                                                   *)

Event(kind, region) == [kind |-> kind, region |-> region]

Init ==
  /\ pfm \in Capsules
  /\ pages = [p \in Pages |-> IF p \in Image[pfm].data THEN pfm ELSE Blank]
  /\ recovery \in Capsules \cup {Bad} /\ staging = Bad
  /\ svn = {} /\ keys = {} /\ due = {}
  /\ act = "Success" /\ rec = "Success" /\ activeSvn = 0
  /\ evq = <<>>
  /\ pc = "publish" /\ job = NoJob /\ page = 0
  /\ top = 0 /\ gone = {} /\ cut = FALSE
  /\ left = [stage |-> MaxStage, reset |-> MaxReset, corrupt |-> MaxCorrupt]

\* PublishBmcEvents.
PublishBmcEvents ==
  /\ act' = "Failure" /\ rec' = "Failure"
  /\ evq' = <<Event("VERIFY", "recovery"), Event("VERIFY", "active")>>
  /\ pc' = "run"
  /\ UNCHANGED activeSvn

-----------------------------------------------------------------------------
(* VERIFY                                                                  *)

\* The BMC is released, with a recovery capsule or without; the events still
\* queued do nothing.
Release(backed) ==
  /\ pc' = "released" /\ evq' = <<>>
  /\ top' = Larger(top, Larger(Image[pfm].svn, IF backed THEN Image[recovery].svn ELSE 0))

\* handleImageVerification with the statuses it leaves, and the recovery event
\* of handlePostVerifyFailure.
Verified(region, ok, a, r) ==
  /\ act' = a /\ rec' = r
  /\ \/ /\ a = "Success" /\ r = "Success" /\ ok
        /\ Release(TRUE)
     \/ /\ ok /\ "Failure" \in {a, r}
        /\ pc' = "run" /\ evq' = Tail(evq) /\ UNCHANGED top
     \/ /\ ~ok
        /\ pc' = "run" /\ evq' = Append(Tail(evq), Event("RECOVERY", region)) /\ UNCHANGED top

Handles(kind, region) == pc = "run" /\ evq # <<>> /\ Head(evq) = Event(kind, region)

\* pfr_recovery_verify.
VerifyBackup ==
  LET ok == CapsuleVerifies(recovery, keys)
  IN /\ Handles("VERIFY", "recovery")
     /\ svn' = IF ok THEN Raised(svn, Image[recovery].svn) ELSE svn
     /\ Verified("recovery", ok, act, IF ok THEN "Success" ELSE "Failure")
     /\ UNCHANGED <<flashVars, keys, due, activeSvn, job, page, gone, cut, left>>

\* pfr_active_verify: the version is recorded before the pages are looked at.
VerifyActive ==
  LET signed == PfmVerifies(pfm, keys)
      ok == signed /\ PagesMatch(pages, pfm)
  IN /\ Handles("VERIFY", "active")
     /\ svn' = IF signed THEN Raised(svn, Image[pfm].svn) ELSE svn
     /\ activeSvn' = IF signed THEN Image[pfm].svn ELSE activeSvn
     /\ Verified("active", ok, IF ok THEN "Success" ELSE "Failure", rec)
     /\ UNCHANGED <<flashVars, keys, due, job, page, gone, cut, left>>

-----------------------------------------------------------------------------
(* RECOVERY                                                                *)

\* Mutant: the version is compared only when there is no active image.
StagedAnyVersion ==
  CapsuleVerifies(staging, keys) /\ (act # "Success" => activeSvn = Image[staging].svn)

\* A staged capsule may become the recovery capsule when it authenticates and,
\* beside an intact active region, is of the same version.
StagedForRecovery ==
  CapsuleVerifies(staging, keys) /\ (act = "Success" => activeSvn = Image[staging].svn)

\* recover_image up to its first write: the recovery region comes first.
RecoverRecovery ==
  /\ \E r \in Regions : Handles("RECOVERY", r)
  /\ rec # "Success" /\ StagedForRecovery
  /\ job' = [region |-> "recovery", from |-> "staging", why |-> "recover"]
  /\ pc' = "copy" /\ evq' = Tail(evq)
  /\ UNCHANGED <<flashVars, policyVars, due, act, rec, activeSvn, page, historyVars, left>>

RecoverActive ==
  /\ \E r \in Regions : Handles("RECOVERY", r)
  /\ rec = "Success" /\ act # "Success"
  /\ job' = [region |-> "active", from |-> "recovery", why |-> "recover"]
  /\ pc' = "erase" /\ page' = 0 /\ evq' = Tail(evq)
  /\ UNCHANGED <<flashVars, policyVars, due, act, rec, activeSvn, historyVars, left>>

\* handlePostRecoveryFailure: without an active image the BMC stays held.
RecoverFails ==
  /\ \E r \in Regions : Handles("RECOVERY", r)
  /\ rec # "Success" /\ ~StagedForRecovery
  /\ IF act = "Success" THEN Release(FALSE)
     ELSE pc' = "lockdown" /\ evq' = <<>> /\ UNCHANGED top
  /\ UNCHANGED <<flashVars, policyVars, due, act, rec, activeSvn, job, page, gone, cut, left>>

-----------------------------------------------------------------------------
(* Rewriting a region                                                      *)

Source == IF job.from = "staging" THEN staging ELSE recovery

\* Mutant: the loop runs one page past the bit map.
ErasesOnePastEnd ==
  /\ pc = "erase"
  /\ pages' = IF page \in Image[Source].active THEN [pages EXCEPT ![page] = Blank] ELSE pages
  /\ IF page = PageCount THEN pc' = "write" /\ page' = 0
     ELSE page' = page + 1 /\ UNCHANGED pc
  /\ UNCHANGED <<pfm, recovery, staging, policyVars, due, act, rec, activeSvn, evq, job,
                 historyVars, left>>

\* decompression_erasing, a page at a time.
ErasePage ==
  /\ pc = "erase"
  /\ pages' = IF page \in Image[Source].active THEN [pages EXCEPT ![page] = Blank] ELSE pages
  /\ IF page = PageCount - 1 THEN pc' = "write" /\ page' = 0
     ELSE page' = page + 1 /\ UNCHANGED pc
  /\ UNCHANGED <<pfm, recovery, staging, policyVars, due, act, rec, activeSvn, evq, job,
                 historyVars, left>>

\* Mutant: decompression takes a page from the capsule for every page.
WritesEveryPage ==
  /\ pc = "write"
  /\ pages' = [pages EXCEPT ![page] = IF @ = Blank THEN Source ELSE Bad]
  /\ IF page = PageCount - 1 THEN pc' = "pfm" /\ page' = 0
     ELSE page' = page + 1 /\ UNCHANGED pc
  /\ UNCHANGED <<pfm, recovery, staging, policyVars, due, act, rec, activeSvn, evq, job,
                 historyVars, left>>

\* decompression_write: programming a page that is not erased spoils it.
WritePage ==
  /\ pc = "write"
  /\ pages' = IF page \in Image[Source].data
              THEN [pages EXCEPT ![page] = IF @ = Blank THEN Source ELSE Bad] ELSE pages
  /\ IF page = PageCount - 1 THEN pc' = "pfm" /\ page' = 0
     ELSE page' = page + 1 /\ UNCHANGED pc
  /\ UNCHANGED <<pfm, recovery, staging, policyVars, due, act, rec, activeSvn, evq, job,
                 historyVars, left>>

\* active_region_pfm_update and pfr_recover_recovery_region: the target is
\* erased, and then holds the copy.
EraseTarget ==
  /\ pc \in {"pfm", "copy"}
  /\ pc' = IF pc = "pfm" THEN "pfmwrite" ELSE "copywrite"
  /\ IF pc = "pfm" THEN pfm' = Bad /\ UNCHANGED recovery ELSE recovery' = Bad /\ UNCHANGED pfm
  /\ UNCHANGED <<pages, staging, policyVars, due, act, rec, activeSvn, evq, job, page,
                 historyVars, left>>

\* What follows an update that ended with ok: the deferred one clears its
\* request, unless both regions were asked for and it succeeded; the other one
\* publishes the initial events.
UpdateEnds(why, ok) ==
  IF why = "deferred"
  THEN /\ due' = IF ok /\ due = Regions THEN due ELSE {}
       /\ PublishBmcEvents
  ELSE pc' = "publish" /\ UNCHANGED <<due, act, rec, activeSvn, evq>>

\* A region recovered is marked as good and posted for verification twice.
Recovered ==
  /\ IF job.region = "active" THEN act' = "Success" /\ UNCHANGED rec
     ELSE rec' = "Success" /\ UNCHANGED act
  /\ evq' = evq \o <<Event("VERIFY", job.region), Event("VERIFY", job.region)>>
  /\ pc' = "run" /\ UNCHANGED <<due, activeSvn>>

WriteTarget ==
  /\ pc \in {"pfmwrite", "copywrite"}
  /\ IF pc = "pfmwrite" THEN pfm' = Source /\ UNCHANGED recovery
     ELSE recovery' = Source /\ UNCHANGED pfm
  /\ IF job.why = "recover" THEN Recovered ELSE UpdateEnds(job.why, TRUE)
  /\ cut' = (cut /\ job.why = "recover")
  /\ UNCHANGED <<pages, staging, policyVars, job, page, top, gone, left>>

-----------------------------------------------------------------------------
(* UPDATE                                                                  *)

\* get_region_type: the active region is served first.
DueRegion == IF "active" \in due THEN "active" ELSE "recovery"

\* The version word when check_svn_number reads it: the recovery capsule has
\* been verified on the way to an update of the active region.
SvnToMeet(region) == IF region = "active" THEN Raised(svn, Image[recovery].svn) ELSE svn

\* Mutant: an older capsule is accepted.
AcceptsOlder(region) ==
  /\ CapsuleVerifies(staging, keys)
  /\ region = "active" => CapsuleVerifies(recovery, keys)

\* Mutant: the active region is updated without a recovery capsule.
AcceptsUnbacked(region) ==
  /\ CapsuleVerifies(staging, keys)
  /\ Image[staging].svn <= SVN_MAX
  /\ Image[staging].svn >= get_ufm_svn(svn)

\* update_firmware_image goes on to write: the staged capsule authenticates,
\* so does the recovery capsule if the active region is replaced, and
\* check_svn_number finds no newer version.
Accepts(region) ==
  /\ CapsuleVerifies(staging, keys)
  /\ region = "active" => CapsuleVerifies(recovery, keys)
  /\ Image[staging].svn <= SVN_MAX
  /\ Image[staging].svn >= get_ufm_svn(SvnToMeet(region))

\* Mutant: the version recorded is the next one.
RecordsNextVersion(region, why) ==
  /\ Accepts(region)
  /\ svn' = set_ufm_svn(Image[staging].svn + 1)
  /\ job' = [region |-> region, from |-> "staging", why |-> why]
  /\ pc' = IF region = "active" THEN "erase" ELSE "copy"
  /\ page' = 0
  /\ UNCHANGED <<flashVars, keys, due, act, rec, activeSvn, evq, historyVars, left>>

\* The update of a region begins: check_svn_number records the version first.
UpdateBegins(region, why) ==
  /\ Accepts(region)
  /\ svn' = set_ufm_svn(Image[staging].svn)
  /\ job' = [region |-> region, from |-> "staging", why |-> why]
  /\ pc' = IF region = "active" THEN "erase" ELSE "copy"
  /\ page' = 0
  /\ UNCHANGED <<flashVars, keys, due, act, rec, activeSvn, evq, historyVars, left>>

\* A refused one has verified the recovery capsule if the staged one was good.
UpdateRefused(region, why) ==
  /\ staging \notin Cancels /\ ~Accepts(region)
  /\ svn' = IF CapsuleVerifies(staging, keys) /\ region = "active"
               /\ CapsuleVerifies(recovery, keys)
            THEN SvnToMeet(region) ELSE svn
  /\ UpdateEnds(why, FALSE)
  /\ UNCHANGED <<flashVars, keys, job, page, historyVars, left>>

\* hrot_update on a key cancellation capsule.
CancelKey(why) ==
  /\ staging \in Cancels
  /\ keys' = cancel_kc_flag(keys, Cancelled[staging].kind, Cancelled[staging].id)
  /\ gone' = gone \cup {Cancelled[staging]}
  /\ UpdateEnds(why, TRUE)
  /\ UNCHANGED <<flashVars, svn, job, page, top, cut, left>>

Updates(region, why) ==
  UpdateBegins(region, why) \/ UpdateRefused(region, why) \/ CancelKey(why)

\* PublishInitialEvents: check_staging_area, then the verifications.
Publish ==
  /\ pc = "publish"
  /\ \/ due # {} /\ Updates(DueRegion, "deferred")
     \/ /\ due = {} /\ PublishBmcEvents
        /\ UNCHANGED <<flashVars, policyVars, due, job, page, historyVars, left>>

-----------------------------------------------------------------------------
(* The BMC, and resets                                                     *)

\* The BMC asks for an update of what is staged, at once or at the next start.
UpdateNow(region) == pc = "released" /\ Updates(region, "event")

UpdateAtReset(regions) ==
  /\ pc = "released" /\ staging # Bad /\ ~(regions \subseteq due)
  /\ due' = due \cup regions
  /\ UNCHANGED <<flashVars, policyVars, act, rec, activeSvn, evq, pc, job, page,
                 historyVars, left>>

Stage(c) ==
  /\ pc = "released" /\ left.stage > 0
  /\ staging' = c /\ cut' = FALSE
  /\ left' = [left EXCEPT !.stage = @ - 1]
  /\ UNCHANGED <<pages, pfm, recovery, policyVars, due, act, rec, activeSvn, evq, pc, job,
                 page, top, gone>>

\* A page of the active region, its PFM or a capsule is damaged.
Corrupt ==
  /\ pc = "released" /\ left.corrupt > 0
  /\ left' = [left EXCEPT !.corrupt = @ - 1]
  /\ \/ /\ \E p \in Pages : pages' = [pages EXCEPT ![p] = Bad]
        /\ UNCHANGED <<pfm, recovery, staging, cut>>
     \/ pfm' = Bad /\ UNCHANGED <<pages, recovery, staging, cut>>
     \/ recovery' = Bad /\ UNCHANGED <<pages, pfm, staging, cut>>
     \/ staging' = Bad /\ cut' = FALSE /\ UNCHANGED <<pages, pfm, recovery>>
  /\ UNCHANGED <<policyVars, due, act, rec, activeSvn, evq, pc, job, page, top, gone>>

Rewriting == pc \in {"erase", "write", "pfm", "pfmwrite", "copy", "copywrite"}

Reset ==
  /\ left.reset > 0
  /\ left' = [left EXCEPT !.reset = @ - 1]
  /\ cut' = (cut \/ (Rewriting /\ job.why # "recover"))
  /\ pc' = "publish" /\ evq' = <<>> /\ act' = "Success" /\ rec' = "Success" /\ activeSvn' = 0
  /\ job' = NoJob /\ page' = 0
  /\ UNCHANGED <<flashVars, policyVars, due, top, gone>>

-----------------------------------------------------------------------------
Work == Publish \/ VerifyBackup \/ VerifyActive \/ RecoverRecovery \/ RecoverActive
        \/ RecoverFails \/ ErasePage \/ WritePage \/ EraseTarget \/ WriteTarget

Bmc ==
  \/ \E r \in Regions : UpdateNow(r)
  \/ \E rs \in SUBSET Regions : UpdateAtReset(rs)
  \/ \E c \in Capsules \cup Cancels \cup {Bad} : Stage(c)
  \/ Corrupt

Next == Work \/ Bmc \/ Reset

Spec == Init /\ [][Next]_vars

\* The main thread carries on with what it has begun.
FairSpec == Spec /\ WF_vars(Work)

-----------------------------------------------------------------------------
(* Properties                                                              *)

\* Every variable stays in its domain.
TypeOK ==
  /\ pages \in [Pages -> Capsules \cup {Bad, Blank}]
  /\ pfm \in Capsules \cup {Bad} /\ recovery \in Capsules \cup {Bad}
  /\ staging \in Capsules \cup Cancels \cup {Bad}
  /\ svn \in VersionWords /\ keys \in SUBSET KeyBits
  /\ due \in SUBSET Regions
  /\ act \in Status /\ rec \in Status /\ activeSvn \in 0..SVN_MAX
  /\ evq \in Seq(Events)
  /\ pc \in {"publish", "run", "released", "lockdown", "erase", "write", "pfm", "pfmwrite",
             "copy", "copywrite"}
  /\ job \in Jobs /\ page \in Pages
  /\ top \in 0..SVN_MAX /\ cut \in BOOLEAN
  /\ gone \in SUBSET [kind : Kinds, id : Nat]
  /\ left \in [stage : Nat, reset : Nat, corrupt : Nat]

\* A BMC that runs has the version of its active image, and of its recovery
\* capsule if that was good, recorded in the UFM: whichever way they got there
\* and wherever resets fell.
ReleasedIsRecorded ==
  pc = "released" => /\ get_ufm_svn(svn) >= top
                     /\ pfm \in Capsules => get_ufm_svn(svn) >= Image[pfm].svn

\* No update writes a capsule that is older than one the BMC ever ran with.
UpdateNotOlder == Rewriting /\ job.why # "recover" => Image[Source].svn >= top

\* Once a key cancellation has been carried out, no capsule signed with that key
\* is written any more, neither by an update nor by a recovery.
CancelledNotWritten ==
  Rewriting => /\ [kind |-> "BMC_CAPSULE", id |-> Image[Source].capsuleKey] \notin gone
               /\ [kind |-> "BMC_PFM", id |-> Image[Source].pfmKey] \notin gone

\* While a region is being rewritten, a reset finds a capsule to go on from in
\* another one.
RewritingHasBackup ==
  Rewriting => CapsuleVerifies(IF job.region = "active" THEN recovery ELSE staging, keys)

\* The BMC is locked down only when nothing in its flash could be booted.
LockdownIsHopeless ==
  pc = "lockdown" => /\ ~CapsuleVerifies(recovery, keys) /\ ~CapsuleVerifies(staging, keys)
                     /\ ~(PfmVerifies(pfm, keys) /\ PagesMatch(pages, pfm))

\* An update that a reset cut off after its version was recorded can be made
\* again as long as the capsule is still staged.
CutUpdateRepeats ==
  cut => CapsuleVerifies(staging, keys) /\ Image[staging].svn >= get_ufm_svn(svn)

\* Every start, every update and every recovery ends with the BMC released or
\* locked down.
Decides == (pc \notin {"released", "lockdown"}) ~> (pc \in {"released", "lockdown"})

\* The policy as UfmStore has it: the keys that no longer verify.
Policy == [svn |-> get_ufm_svn(svn),
           cancelled |-> {k \in {Cancelled[x] : x \in Cancels} :
                            ~verify_kc_flag(keys, k.kind, k.id)}]

Store == INSTANCE UfmStore WITH
  Items <- {"policy"}, Data <- {"kept"}, Blank <- Blank, NoPolicy <- [svn |-> 0, cancelled |-> {}],
  Policies <- [svn : 0..(SVN_MAX + 1), cancelled : SUBSET {Cancelled[x] : x \in Cancels}],
  data <- [i \in {"policy"} |-> "kept"], marked <- {"policy"}, policy <- Policy

\* Authentication, recovery, update and key cancellation change the policy words
\* only as UfmStore allows: the version does not fall and a key that no longer
\* verifies never does again.
PolicyOnlyTightens == Store!Spec
=============================================================================
