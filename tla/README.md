# Tektagon OE: TLA+ models of the HRoT firmware

Tektagon Open Edition is platform-root-of-trust firmware for the AST1060. It
holds the BMC and the PCH in reset, authenticates the firmware in their SPI
flashes, repairs it from a recovery or a staging area, applies update capsules,
and releases the processors. This directory models the part of the repository
that is its own logic (`zephyr/ApplicationLayer/tektagon`,
`zephyr/FunctionalBlocks/Pfr/intel_2.0`) in the configuration that is built: Intel
PFR, `BMC_SUPPORT=1`, `SMBUS_MAILBOX_SUPPORT=1`.

## The system

| component | state | operations | interaction |
|---|---|---|---|
| State machine (`state_machine.c`, `smf.c`, `main.c`) | current state, event pointers, event FIFO | run loop, `run_idle` as the parent of all states but LOCKDOWN, entry and run actions | one thread; takes events from the FIFO that handlers and interrupts fill |
| Actions (`StateMachineActions.c`) | `AO_DATA` and `EVENT_CONTEXT` globals, reset monitor | verify, recover, update, lock down, release; BMC reset and watchdog callbacks | calls authentication, recovery and update; posts events |
| Authentication, recovery (`pfr_verification.c`, `pfr_recovery.c`, `intel_pfr_authentication.c`, `intel_pfr_recovery.c`) | SPI flash | verify a region, restore recovery from staging, restore active from recovery | reads addresses from the UFM |
| Update (`pfr_update.c`, `intel_pfr_update.c`) | SPI flash, SVN words, `CPLD_STATUS` | update a region, HRoT firmware, decommission, key cancellation, deferred updates | called by UPDATE and at each start |
| Mailbox (`Smbus_mailbox.c`) | registers, provisioning data, FIFOs | update intents, checkpoints, provisioning | called by the I2C state; posts UPDATE events; reads are served in the interrupt |
| I2C slave (`BmcI2C_handler.c`) | one command buffer, byte counter | write requested, received, read requested | interrupt; posts I2C events |
| UFM (`pfr_ufm.c`, flash helpers of the mailbox) | provisioning sector, `CPLD_STATUS` sector | read, read-erase-write, erase | persistent |
| Platform lines (`gpio_aspeed.c`, `watchdog_aspeed.c`) | two reset lines, two watchdogs | hold, release, start, stop | |
| Manifest chain (`intel_pfr_verification.c`, `intel_pfr_provision.c`) | one `struct pfr_manifest` for all verifications | verify type, root key, CSK, block 0 entry, content | called for every capsule and PFM; reads the root hash and cancelled keys from the UFM |
| Key cancellation, security versions (`intel_pfr_key_cancellation.c`, `intel_pfr_update.c`) | policy words in the UFM, one bit per key and per version | cancel, look up, raise, compare | written by capsules and by authentication |
| Decompression (`pfr_recovery.c`, `intel_pfr_pbc.c`) | pages of the active region | erase by one bit map, write by another, copy the PFM | called by update and recovery |
| Filtering, engines, key store | see "Not modelled" | | |

What is hard here is not any one function. The handlers run for seconds of flash
time while three interrupt sources overwrite the very objects they work on;
events carry pointers to those shared objects rather than values, so an event
means what its object holds when it is dispatched; a recovery, its verification
and the release are separate events that others fall between; and a reset may
cut any flash operation. Versions and cancelled keys are recorded before, during and
after the flash they speak of is rewritten, and the verifications leave state
behind for each other in one shared structure. What makes the system correct: a provisioned BMC never
leaves reset with an image that does not authenticate; its flash is rewritten
only while it is held; lockdown is final; every held BMC is
eventually released or locked down; no command and no reset indication is lost;
no update goes back to an older version or to a cancelled key, wherever resets
fall; only what the root key vouches for passes, whatever was verified before it.

## Modules

* `Hrot` - the state machine, its handlers, the flash operations they call and
  the interrupts.
* `HrotProofs` - its inductive invariants and the theorems that hold without hypotheses.
* `HrotReleaseProofs` - when the BMC is held and how long the FIFO gets, with a second
  invariant about the order of the queued events and one about their number.
* `HrotIntactProofs` - what the BMC is released with, with a third one about the image
  statuses.
* `Provision` - the provisioning commands and the read-erase-write by which every
  change of the UFM sector is made.
* `UfmStore` - what the UFM promises: items are written once, marks are kept,
  versions do not fall and cancelled keys stay cancelled, each change atomic, until
  everything is wiped together. `Provision` implements it.
* `ProvisionProofs` - the refinement and the theorems about `Provision`.
* `UfmPolicy` - the encoding of the policy words: security versions and cancelled
  keys, bit by bit.
* `UfmPolicyProofs` - what a lookup returns after a write, for every version and id.
* `Platform` - the abstract specification `Hrot` implements: what the HRoT promises about
  the BMC's reset line and image, without events, objects or handlers.
* `Versions` - what the BMC's flash holds: active pages and PFM, recovery and staging
  capsules, versions and keys, through authentication, recovery, update and deferred
  update, a page at a time.
* `VersionsProofs` - its inductive invariant and theorems. `Versions` too implements
  `UfmStore`, seen from its policy.
* `Manifest` - the signature chain and the capsules for the HRoT itself.
* `ManifestProofs` - its theorems.
* `I2cMailbox` - how the bytes of the BMC's I2C transactions become commands, and the
  FIFO through which an item to be provisioned arrives.
* `I2cMailboxProofs` - its inductive invariant and theorems.
* `MCHrot`, `MCProvision`, `MCVersions`, `MCManifest`, `MCI2cMailbox` - the sets the configurations use
  as bounds.

`Hrot` and `Provision` meet at two variables. What `Provision` does to the status
register and the sector in detail, `Hrot` has as free changes of `prov` (the
register equals `UFM_PROVISIONED`) and `ufm` (all flags are set) by a provisioning
command, a decommission or a reset that cuts an update. What `Hrot` has as a free
choice between accepting and refusing a capsule is decided in `Versions`, whose
capsules authenticate or do not; why they do is the subject of `Manifest`. `Versions`
writes the policy words in one step, which is what `UfmStore` promises and `Provision`
implements (`svn_lost` shows where that promise ends). `I2cMailbox` stands in front of
`Hrot` and `Provision`: a command is one step in them, and the item of `Provision`'s
`Send` is what `item` holds.

A definition commented "Mutant" is the neighbouring definition with a plausible
mistake. No specification uses it: replacing the definition by it makes a property
fail, which shows that the property depends on the code.

### How `Hrot` corresponds to the code

`cur` is the current `hrot_states` entry, `ctx` the two pointers of
`hrot_smc_context`, `evq` the FIFO `evt_q`, `ao` and `ev` the global objects the
events point at (`BmcActiveObjectData`, `WDT_AOData`, `UpdateActiveObject`,
`I2CActiveObjectData`; `BmcData[0]`, `BmcData[1]`, `WDT_EventData`,
`UpdateEventData`, `I2CData`), `cmd` the I2C buffer, `bmc`, `pch` and `wdt` the lines
and timers, `monitor` the reset interrupt, `platform` the PlatformState register,
`prov` whether the status register equals `UFM_PROVISIONED`, `ufm` whether the UFM
holds a complete provisioning, `flash` and `cpld` what survives a reset.

`pc` is where the main thread is inside `smf_run_state`: about to call the run
action (`run`), in an authentication, recovery or update (`auth`, `recover`, `update`),
about to publish after an update (`publish`), or about to run the parent's action
(`parent`). A flash operation is two steps. Its first chooses the outcome
`res` and erases the regions it will rewrite, so that a reset in between finds
them bad; its second writes them and does the rest of the handler. The handler
re-reads its objects in the second step, as the code does, so whatever an
interrupt wrote in between is used.

| code | model |
|---|---|
| `main`, static initialisers | `Boot`, `Reboot`, `Init` |
| `StartHrotStateMachine`, `run_idle`, `smf_run_state` | `IdleEmpty`, `IdleInitialize`, `IdleDispatch`, `AtIdle`, `Entry` |
| `post_smc_action` | `post_smc_action` (drops when the heap is full) |
| `PublishInitialEvents`, `PublishBmcEvents`, `check_staging_area` | same names, `Deferred` |
| `handleImageVerification`, `handlePostVerify*` | `VerifyBegin`, `VerifySucceeds`, `VerifyFails`, `authentication_image`, `Verified` |
| `handleRecoveryAction`, `handlePostRecovery*`, `recover_image` | `RecoverBegin`, `RecoverSucceeds`, `RecoverFails`, `recover_image`, `RecoverySources` |
| `handleUpdateImageAction`, `handlePostUpdate*`, `update_firmware_image`, `hrot_update` | `UpdateBegin`, `UpdateEnd`, `UpdatePublish`, `UpdateReboot`, `update_firmware_image`, `hrot_update` |
| `process_i2c_command`, `PchBmcCommands`, `UpdateIntentHandle` | `RunI2c`, `UpdateIntentHandle`, `UpdateEvents`, `UpdateFlags`, `PublishUpdateEvents` |
| `T0Transition`, `CheckAndReleasePlatform`, `LockDownPlatform`, `run_lockdown` | `T0Transition`, `CheckAndReleasePlatform`, `RecoverFails`, `RunLockdown` |
| `bmc_rstind_handler`, `wdt_callback_*`, `i2c_1060_slave_bmc_write_received` | `BmcReset`, `WdtTimeout`, `I2cWrite` |

Abstractions:

* A flash region is "good" (it would authenticate) or "bad". Restoring from a good
  source gives a good region, or a bad one when a write goes wrong; each such
  write is counted against `MaxFault`. `flash_copy_and_verify` reads back, so a
  fault in the recovery region is detected; the decompression into the active
  region does not read back, so there it may be silent.
* Security versions, capsule types and key cancellation are a free choice
  between accepting and refusing (see `Versions` and `Manifest`).
* `check_staging_area` is one step: interrupts of the mailbox and the watchdogs
  may not fall inside it. At a boot both processors are held and nothing can
  interrupt; after an update a watchdog that was left running could. Which
  region a deferred request names, and so whether its flag is cleared, is left
  open.
* `update_entry` passes an image number where a pointer is expected; the state it
  reports is either update state.
* A released processor may damage its own flash (`Corrupt`), and the HRoT may be
  reset at any moment (`Reset`). These and the interrupts are bounded by `left`.
* A reset during an update may lose the UFM sector or `CPLD_STATUS`, which the update
  erases and rewrites.
* Read accesses to the mailbox, error codes, counters and logs are left out.

### How `Provision` corresponds to the code

`sector` is the UFM sector: the root key hash and the offsets of PCH and BMC
(`data`), the status word (`word`: the provision flags as a set of marked items, and
bit 0), the security version and the cancelled keys (`policy`). `ram` is
`gRootKeyHash`, `gPchOffsets` and `gBmcOffsets`, `status` the provision status
register as a set of bits, `count` `gProvisionCount` (8 bits), `fresh`
`gProvisionData`. `word` and `buf` are the local variables `UfmStatus` and `buffer`,
`job` the arguments of `set_provision_data_in_flash`, and `pc` the access to the flash
that comes next, so that a reset or a failure may come between any two. `sent` is
history: what the commands have sent for each item since the last start, while `ram` also
holds what the start read from the sector.

| code | model |
|---|---|
| `process_provision_command` | `Accepts`, `Send`, `EraseCurrent`, `ReadBack`, `LockUfm`, `Finish` |
| `ProvisionRootKeyHash`, `ProvisionPchOffsets`, `ProvisionBmcOffsets` | `Check`, `Return`, `WipeItem`, `NextItem` |
| `set_provision_data_in_flash` | `ReadSector`, `EraseSector`, `Changed`, `WriteSector`, `LastRead` |
| `get_provision_data_in_flash` | `ReadWord` |
| `set_ufm_svn` after its checks, `cancel_csk_key_id` | `SetPolicy` |
| `ResetMailBox`, `InitializeSmbusMailbox` | `BootStatus`, `Init`, `Reset` |

Abstractions:

* All stored fields lie in the first 256-byte page of the sector, so a write
  programs them all or none. A failing erase may have erased, a failing write may
  have written, and a failing read leaves its destination as it was: arbitrary for a
  local variable, blank for a global one after a reset.
* There is one security version and one set of cancelled keys; the words of the
  other images are further bytes of the same buffer. `MaxSvn` stands for `SVN_MAX`.
  A failed read before a version is set makes the new version arbitrary. `ufm_read`
  returns the value of a `void` function; `cancel_csk_key_id` giving up because of it
  is the absence of a step.
* The checks of the capsule that carries a version or a key id are left to `Hrot`;
  they need a stored root key.
* The PIT commands change nothing. Clearing `DecommissionFlag` at the end of a
  provisioning concerns `CPLD_STATUS`, a sector `Provision` does not have, and
  decommissioning, which erases the sector and reboots, is in `Hrot`.

### How `Versions` corresponds to the code

A capsule is a model value that authenticates; `Image` says what it holds: the
version, the ids of the keys that signed it and its PFM, and its two page bit maps.
`pages` and `pfm` are the active region, `recovery` and `staging` the capsules,
`svn` and `keys` the policy words of the BMC, `due` the update requests in
`CPLD_STATUS`, `act` and `rec` the two image statuses, `activeSvn` the register the
recovery compares with. `top`, `gone` and `cut` are history.

| code | model |
|---|---|
| `pfr_recovery_verify`, `get_recover_pfm_version_details` | `VerifyBackup`, `CapsuleVerifies`, `Raised` |
| `pfr_active_verify`, `pfm_version_set`, `pfm_spi_region_verification` | `VerifyActive`, `PfmVerifies`, `PagesMatch`, `Raised` |
| `handleImageVerification`, `handlePostVerify*` | `Verified`, `Release` |
| `recover_image`, `pfr_staging_verify`, `handlePostRecovery*` | `RecoverRecovery`, `RecoverActive`, `RecoverFails`, `Recovered` |
| `decompression_erasing`, `decompression_write`, `active_region_pfm_update`, `pfr_recover_recovery_region` | `ErasePage`, `WritePage`, `EraseTarget`, `WriteTarget` |
| `update_firmware_image`, `check_svn_number`, `hrot_update` | `Accepts`, `UpdateBegins`, `UpdateRefused`, `CancelKey` |
| `check_staging_area`, `get_region_type`, `PublishInitialEvents` | `Publish`, `DueRegion`, `UpdateEnds`, `PublishBmcEvents` |
| `set_ufm_svn`, `get_ufm_svn`, `cancel_csk_key_id`, `verify_csk_key_id` | same names in `UfmPolicy` |

Abstractions:

* One processor, the BMC; interrupts are left to `Hrot`, so the two verifications of a
  start run with nothing between them but a reset. An event after a release does
  nothing that `Versions` keeps.
* A policy word is the set of its clear bits. A cancelled key is looked up through a
  pointer to a function of an 8-bit id, so ids are taken modulo 256.
* Programming a page that is not erased spoils it. A capsule's pages outside its
  active bit map are not looked at by the PFM and stay as they are.
* The compression tag of a capsule is right: one that is signed but does not match is found
  only after its version was burnt, and is not a case of `Versions`.
* The HRoT's own capsules and decommissioning are in `Manifest` and `Hrot`.

### How `Manifest` corresponds to the code

`m` is the `struct pfr_manifest` that all verifications share, without the fields every
caller sets anew; `root`, `keys` and `rot` are the root key hash and policy words in the
UFM; a blob is a record of the fields the chain looks at. A signature is the key that
made it and the digest it was made of. The operators have the names of the functions;
`VerifyAs` is any caller that expects a type, `hrot_update` takes the type from the
capsule and acts on it. It burns the version of an HRoT capsule and begins to write the
firmware (`writing`); `update_rot_fw` is the end of that, with success or with a page that
could not be copied, and a reset may come first. `Authentic` says what a verdict should
be, from who signed what. `gone` and `installed` are history: the cancellations carried
out, with the id as the capsule names it, and the HRoT versions installed. `Struck` says
that a cancellation of an id for which its word has no room has hit a blob's CSK.

Abstractions: tags and fixed fields are right or wrong; the hash is computed for the
smaller curve only, as in the code (the branch of the larger one leaves zeros), and
mbedtls takes a public key of the length the structure says. A blob holds one version
word, which is the version, the key id or the decommission content by its type.

### How `I2cMailbox` corresponds to the code

`op` and `buf` are `gI2cSlaveProcess`, `received` is `gDataReceived`, `pnc` is
`ProcessNewCommand` of `I2CActiveObjectData`, `queued` the number of I2C events in the
FIFO of the state machine (they all point at the same two objects), `command`, `fifo`
and `index` the command register, `gUfmFifoData` and `gFifoData`. `bus` is the
transaction going on, `pc` and `addr` the main thread between looking at
`ProcessNewCommand`, at the two bytes of the buffer and clearing the flag; `i2c` says that
the state machine is in state I2C, where `run_i2c` is called without a new event too.
`want`, `loose`, `sent`, `intact` and `whole` are history: the write in step that the main
thread owes; what a transaction out of step that it owes may be executed as; the bytes
sent since the last flush and whether none of them was disturbed; and whether no write
ended early since the last read.

| code | model |
|---|---|
| `i2c_1060_slave_bmc_write_requested`, `i2c_1060_slave_bmc_stop` | `write_requested`, `stop` |
| `i2c_1060_slave_bmc_write_received` | `AddressReceived`, `ValueReceived`, `Store`, `Announce` |
| `i2c_1060_slave_bmc_read_requested`, `ClearI2cSlaveProcessData` | `read_requested` |
| `run_i2c`, `process_i2c_command`, `run_idle` | `Dispatch`, `End`, `Leave` |
| `PchBmcCommands` | `PchBmcCommands`, `Flush`, `TakeByte` |
| `process_provision_command` | `process_provision_command`: what it takes from the FIFO |

Abstractions:

* A callback is a step and the main thread may run between any two. A driver that
  hands over whole packets has fewer interleavings.
* A transaction is an address and at most one value, or an address and a read.
* Of the registers there are those of the write FIFO; the others are read or
  written without touching the variables here. The memory behind the FIFO, which an
  index past its end would overwrite, is not modelled: such a byte is dropped.
* A locked UFM, and a command without an item, is `item` left as it is.
* The PCH's slave is not modelled. Its callbacks fill the same buffer and call
  `PchBmcCommands` in the interrupt, without its second argument.

## Runs

The runs of `Hrot` use `QMax = 16` events and let any of the BMC's active, recovery
and staging regions be bad at the start.

| run | events | shows |
|---|---|---|
| `release` | 2 BMC resets, 1 corruption, 1 HRoT reset, any deferred updates | `ReleasesIntactBmc`, `TypeOK` |
| `boot_decides` | 1 command with a single intent, a BMC update pending in `CPLD_STATUS` or none, 1 fault, 1 corruption, 1 HRoT reset; fairness | `BmcDecided`, `CommandServed`, `LocksBrokenBmc` |
| `watchdog` | 3 expiries, 2 corruptions, 1 HRoT reset, any deferred updates | `LockdownHoldsBmc`, `RewriteHoldsBmc`, `ReleasesIntactBmc`, `PlatformSpec` |
| `interrupts` | 1 BMC reset, 1 expiry, 1 command with intents for the BMC alone or combined, 1 fault, 1 HRoT reset | `NoNullDereference`, `Monitored`, `QueueBounded`, `UpdateNotStranded`, `LockdownFinal` |
| `faulty_recovery` | 1 fault, nothing else | `ReleasesIntactBmc` violated |
| `retry_forever` | 1 watchdog expiry, nothing else; fairness | `BmcDecided` violated |

The runs of `Provision` use one key id and the versions 0 and 1, and start with an
erased or a completely provisioned sector.

| run | events | shows |
|---|---|---|
| `provisioning` | 2 values, 6 commands, 2 HRoT resets | `TypeOK`, `EnabledIsProvisioned`, `ProvisionedAsSent`, `StoreSpec` |
| `busy_ends` | 1 value, 3 commands, 1 HRoT reset, 2 failing accesses of any kind; fairness | `BusyEnds` |
| `svn_lost` | 1 command, 1 HRoT reset | `NoRollback` violated |

| run | instance | shows |
|---|---|---|
| `versions` | 3 capsules, 2 cancellations, 2 pages, 2 stagings, 2 resets, 1 corruption; fairness | `TypeOK`, `ReleasedIsRecorded`, `UpdateNotOlder`, `CancelledNotWritten`, `RewritingHasBackup`, `LockdownIsHopeless`, `CutUpdateRepeats`, `Decides`, `PolicyOnlyTightens` |
| `i2c` | an item of 2 bytes, 2 event slots, a FIFO of 2 bytes, unbounded transactions and resets; fairness | `TypeOK`, `ServedAsSent`, `AnswersWhatWasAsked`, `InStep`, `ItemAsSent`, `Served` |
| `manifest` | 3 well-signed blobs with up to two fields wrong, 2 more with up to one, and 2 with the highest version and one too high, in any order, with resets | `TypeOK`, `AcceptedIsAuthentic`, `AuthenticIsAccepted`, `PolicyGuarded`, `HrotOnlyNewer` |

The bounds are chosen to be the largest under which the property holds and
to let the interesting cases happen: two resets put a second reset between the
handling of the first and its end; three expiries put one before, one inside and
one after a recovery; one command may publish up to three UPDATE events. Three sends
make a provisioning, of one item or of several, and three more repeat it, complete it,
change or erase what it left; two values, which are symmetric, tell an item that was
sent from one that was stored; a single key and two
versions suffice because a job changes one policy once. The versions 7, 8 and 9 lie on
both sides of a byte of the version word, the keys 3 and 4 share a byte, the key id
132 lies in the word of the next kind, and the three page maps differ in what they
erase and what they write; two stagings let one capsule be an update and the next
a rollback or a cancellation, two resets cut an update and its repetition. Two wrong
fields are a blob that one check alone would let through; the cancellation of id 131 strikes
key 3 of the next kind, and the versions 1, 63 and 64 are the ends of the range. In `i2c` the index has one
value past the FIFO before it wraps, two event slots let a stale event wait behind
the current one, two different bytes make an exchanged item visible, and bytes that
are out of step give the trigger register the value 12, which flushes the read
FIFO. What is proved
below holds without bounds.

**Fairness** is weak fairness of the main thread only: its loop never blocks,
`k_fifo_get` is called with `K_NO_WAIT`, and flash operations return. In `Provision` that
is weak fairness of `Step`, the rest of a command that has begun, in `Versions` of `Work`,
everything the BMC and resets do not do, in `I2cMailbox` of `MainThread`. Interrupts,
commands, damage, failures and resets need never happen. Nothing is assumed about a
particular handler.

**Deadlock** is checked in `Hrot`, whose main loop always runs, and in `I2cMailbox` and
`Manifest`. In `Provision` it is
not: between two commands the code waits, and the number of commands is bounded. Nor
in `Versions`: a lockdown, and a running BMC that has used up its bounds, really stop.

### What the passing runs do not claim

The runs above separate the event sources because the code does not keep the
properties under all their combinations. These were found with the same module
under other bounds:

* `LockdownHoldsBmc` and `RewriteHoldsBmc` fail with one BMC reset: the reset handler
  marks the object as new, so the recovery after it may run, or lock down, after
  an event of the earlier boot has released the BMC. `RewriteHoldsBmc` also fails
  when a watchdog left running expires during an update. With five expiries, some of
  them during a recovery, `RewriteHoldsBmc` fails (three corruptions, one HRoT reset),
  and `LockdownHoldsBmc` (two faults, three corruptions).
* `LockdownHoldsBmc` fails with four commands that overlap and two corruptions: the
  UPDATE events that are served when another command's updates are done have nothing to
  do, but publish the initial events nevertheless, without holding a BMC that runs
  by then. That no command is pending is not enough to exclude it, only that no event is:
  the handler of the current state is called again whenever the FIFO is empty.
* `LocksBrokenBmc` fails with a BMC reset, which sets the status of the active region to
  Failure while an earlier recovery is still to run, with a watchdog expiry, and with two
  commands of which the second arrives before the updates of the first are done. It also
  fails if the heap has room for two or three events only: the verification of the
  active region is then dropped, the failing one of the recovery region is not, and the
  recovery that follows takes the initial Failure for a verdict.
* `ReleasesIntactBmc` fails with a BMC and a PCH watchdog together (they share one
  object), with BMC resets and watchdog expiries together, and with three resets and
  two corruptions.
* `ProvisionedAsSent` says nothing of an item that was not sent: `gProvisionCount` counts
  commands, so three sends of one item provision the other two with what RAM holds from
  the last start, which is blank if the UFM was erased then.
* `UpdateNotStranded` fails when the heap has room for two events only and one is dropped: the
  object stays armed and the next UPDATE event, of any command, carries the intent out.
* With a failing erase, `EnabledIsProvisioned` and `ProvisionedAsSent` fail: after a failed erase
  `set_provision_data_in_flash` returns the result of a last read, which succeeds, so
  an item is marked that was not stored. With a failing read `StoreSpec` fails: the
  status word is then what the stack held, and is written back.
* Reading back a provisioned item overwrites the status register with a value that is
  not equal to `UFM_PROVISIONED`. `T0Transition` compares by equality, so the next
  release starts neither the reset monitor nor the watchdogs, until a reset.
* `ProvisionPchOffsets` and `ProvisionBmcOffsets` report a failed write with
  `COMMAND_ERROR`, erase the UFM and return Success, so the command ends with
  `COMMAND_DONE | UFM_PROVISIONED` and an empty UFM.
* A write completed while the main thread executes another one is lost, since
  `ProcessNewCommand` is cleared after the command; its event is taken later and ignored, or
  for the write that follows. An address sent right after a write, a poll of the status
  register for example, overwrites it before it is executed. A master has to wait;
  `ServedAsSent` is about one that does.
* A write that ends after its address leaves the count at one: the next write is
  announced with its address byte, and its value byte counts for the one after. If the
  main thread is faster than the value, the write is executed with its address for
  the value. A read in its place gets its answer and puts the count right, but was
  announced too, and is executed as a write of its register (of the address or 0), or
  of register 0. `ServedAsSent` admits exactly these outcomes: what is excluded are the
  bytes of an earlier write.
* Reading the write FIFO stores its address as a data byte: the register has no read of
  its own.
* A recovery does not look at the recorded version: with the active region damaged it
  installs whatever capsule the recovery or staging region holds, if it authenticates.
  `UpdateNotOlder` is about updates.
* `cancel_csk_key_id` has no bound: a cancellation of a key id of 128 to 255 clears a bit
  of the next kind's word, and one of 256 or more that of another key (`CancelIsExact` in
  `UfmPolicyProofs` states the range in which neither happens). An authentic capsule
  signed with a key that was struck in this way is refused. `AuthenticIsAccepted` names
  this as the one exception (`Struck`); without it the property fails in `manifest`.
* A reset, or a page that cannot be copied, inside `update_rot_fw` leaves the HRoT with a
  version recorded that was not installed: the same capsule is then refused, and
  `HrotOnlyNewer` does not say otherwise.
* A root entry with the larger curve never authenticates: its hash is zeros. One of an
  unknown curve is judged by the curve the verification before it left, and may pass;
  it is authentic nevertheless.
* The content of a decommission capsule is not hashed, and its CSK is looked up among
  the keys cancelled for BMC capsules while its permission is that of CPLD capsules.
* `BmcDecided` fails with combined intents, and after a BMC reset with a damaged
  recovery region: the verification is repeated while nothing restores the region.

### Findings

* `faulty_recovery`: with both BMC regions bad and a good staging area,
  `recover_image` sets the status of each region to Success as soon as it has been
  written. The verification of the recovery region, queued first, then finds both
  statuses Success and releases the BMC before the verification of the rewritten
  active region, queued behind it, has run. One faulty write of the active region
  is then not noticed before the release.
* `retry_forever`: `TOTAL_RETRIES` and the retry field of `EVENT_CONTEXT` are never
  read. A watchdog recovery trusts the recovery region (its status is zero, which
  is Success); if that region is bad the active region is restored, fails, and is
  restored again without end.
* `svn_lost`: a reset between the erase and the write of the sector loses the security
  versions and the cancelled keys (and the provisioning with them).

The lock is a further peculiarity, without a document to compare it with:
`lock_provision_flash` sets bit 0 of the stored status word, which is set in erased
flash already and which provisioning requires to be set, so only the register
knows of a lock and a reset forgets it.

## Proofs

`HrotProofs` proves, for every queue size, every number of interrupts, commands,
faults and resets and every set of intents (`BoundsAssumption` is the only
assumption):

* `TypeCorrect`: `Spec => []TypeOK`
* `NeverNull`: `Spec => []NoNullDereference`
* `AlwaysMonitored`: `Spec => []Monitored`
* `LockdownIsFinal`: `Spec => LockdownFinal`
* `QueueIsLinear`: `Spec => []QueueLinear`
* `UpdatesAreQueued`: `Spec => []UpdateNotStranded`, if `QMax` is larger than the bound of
  `QueueIsLinear`

None of the invariants but the first is inductive. All but the last two are proved together
as parts of `IInv`:

* `Booting` or `Running`: before the INITIALIZE event is taken it is the only
  event, the state is IDLE and no interrupt source is enabled; afterwards every
  queued event is `Matched`, that is, it carries the object and the context that
  belong to its state. Without the first half an interrupt could put an event in
  front of the NULL one, without the second a dispatch could bring NULL.
* `Handling`: inside a handler `cur` and `ctx` are those of that handler.
* `UpdateNamed`: an UPDATE that is being handled was named by an intent.
* `Monitored` and `UpdateHoldsBoth` themselves: `Monitored` needs `Handling` to know
  which object a release deactivates. `UpdateHoldsBoth` (an update that writes holds both
  processors) is there for the proofs that build on this one; it needs `Handling` to
  exclude that a release happens while `pc` is `update`.

There is one lemma per action and `NextStep` combines them; lemmas on the flash
operations (`Outcome`, `update_firmware_image`, `recover_image`, `Spend`,
`check_staging_area`) state that they yield members of `Operation`. `LockdownIsFinal`
is an action property: in LOCKDOWN with `pc = "run"` every action but
`RunLockdown`, the interrupts and `Reset` is disabled, and none of the first two moves
a line.

`QueueLinear` is the question of `QueueBounded` with larger factors: at most 6 events
wait, 3 more for each BMC reset or expiry and 19 more for each command. That the handlers
publish more than they take (a recovery posts its verification twice, a verification
that fails posts a recovery, an update posts two verifications) does not let the FIFO
grow without interrupts. The invariant is `LInv`. A context is `Armed` while one of its
verifications can still fail; `Quota` counts how often it was armed from outside its
own chain of verifications and recoveries: at boot, by a BMC reset, an expiry, or one of
the up to three updates of a command. `ChainKept` says that the waiting recoveries and an
armed context together stay within the quota, and `Fits` that wherever the FIFO is cut,
the verifications behind the cut and two for each recovery before it are at most twice
the quota: a recovery reaches the head only when what waits in front of it is gone, and
then there is room for the two verifications it posts. The sum over the three contexts,
the updates and the commands is the bound. The counting lemmas (`FirstNext`, `CountTail`,
`FitsAppend`, `CountUnion`) go through cardinalities of sets of places, so that they need
no induction over the queue.

`UpdatesAreQueued` rests on `QueueLinear`: it is what guarantees that `PublishUpdateEvent`
finds room. The rest is that an UPDATE event leaves the FIFO only to be handled, that no
interrupt takes one out, and that the handler disarms the object when it ends, with
success and with failure; an event that finds the object disarmed does nothing.

`HrotReleaseProofs` proves, for any number of commands, faults, corruptions and resets
and any queue size:

* `LockdownsHoldBmc`: `Spec /\ CommandsInTurn => []LockdownHoldsBmc`
* `RewritesHoldBmc`: `Spec /\ CommandsInTurn => []RewriteHoldsBmc`
* `QueueStaysBounded`: `Spec /\ CommandsInTurn => []QueueBounded`
* `QueueStaysShort`: `Spec /\ CommandsInTurn => [](Len(evq) <= 14)`

if `MaxBmcReset` and `MaxTimeout` are 0. `CommandsInTurn` says that the BMC writes a
command only when the FIFO is empty; a handler, and so a verification, a recovery or
an update, may be going on. The previous section has a counterexample for each of the
three hypotheses of the first two. Their invariant `QInv` is about what waits behind what, since neither
`LockDownPlatform` nor `recover_image` holds the BMC:

* `HeldInUse`, the heart of it: the BMC is held while its object has something to
  process. A release ends the use; what must be excluded is that a later event puts
  the object to use again without holding the BMC, which only `UPDATE` events do.
* `Updating`, `Commanded`, `Unprovisioned`: the updates of a command follow each other
  with nothing that releases in between; a command that is not served yet finds
  neither updates nor recoveries in the FIFO; a command that changes the
  provisioning while the object is in use leaves no update behind.
* `Ordered`, `Blocks`: verifications and recoveries wait as two blocks, and those of the
  handler that runs come first. This carries the above over the events that
  handlers publish.
* `Room`: in these behaviours a handler of an object in use finds room for the next
  event it publishes, whatever the size of the FIFO, so that no block ends early.
* `Recovering`: a recovery that writes or fails was begun for an object in use.

The last two rest on `BInv`, relative to `QInv`. It reserves a place for every event that
waits, for the two an update turns into, for the recovery a verification may post and,
unless it waits behind a verification, for the two verifications a recovery
turns into (`UpdatesFit`, `RecoveriesFit`): 4 places before the first command, 9 after it,
14 after any later one. That no more are needed follows from `OneRecovery` (a context has
one recovery at a time, and none waits where a verification of it may still fail),
`FewWait` and `Short` (the FIFO was empty when a command came, so that behind it are only
the two events of the handler that ran then) and `FromCommands` (updates come from
commands alone, and the first command finds the object of the initial events done with).

`HrotIntactProofs` proves, in the same behaviours with `MaxFault = 0`:

* `ReleasesAreIntact`: `Spec /\ CommandsInTurn => ReleasesIntactBmc`

`faulty_recovery` shows that the last hypothesis is needed. `CheckAndReleasePlatform`
decides on the status fields of `AO_DATA`, and these are often wrong: `recover_image` sets
them before anything is verified. `XInv` says when they may be. `ActiveClaim`: an active
region marked Success authenticates, or the next verification is one of the active
region, which will find out. `RecoveryClaim`: the same for the recovery region that
the active one is restored from. `Authenticating` and `Restoring` say what a verification or
a recovery that is going on found and will write, `Fresh`, `OfBmc` and `Named` what the
objects and contexts hold. The lemmas about the first verification in the queue rest on
`LeastNatural`, the least-element principle, which is taken from the library's
`WFMin` and gives what can be had of induction here.

From the same invariant follows the refinement, under the same hypotheses:

* `ImplementsPlatform`: `Spec /\ CommandsInTurn => PlatformSpec`

The image of `Platform` is what an authentication of the active region would find, its
other variables are `prov`, `cur = "LOCKDOWN"` and the resets left. There is one lemma per
action, which names the abstract step the handler takes: the first half of a recovery or
an update is `Hold` (it erases), the second `Rewrite`, a release is `Release`, a
failing recovery `Lock`, a provisioning command `Disable` or nothing, a reset `Restart`.
`Writing` is added to the invariant: an update of the HRoT itself does not write the
active region, so that the restart after it keeps the image, and a recovery that fails
has lost what it erased, so that a lockdown is not a rewriting at the same time.

The last theorem is about the lockdown, which is as grave as a wrong release: a platform
in LOCKDOWN needs a reset of the HRoT.

* `LockdownsAreNeeded`: `Spec /\ CommandsAtRest => LocksBrokenBmc`

if `MaxBmcReset` and `MaxTimeout` are 0 and `QMax` is at least 6. Flash writes may go wrong
here. `CommandsAtRest` adds to `CommandsInTurn` that no update of an earlier command is
still to be made. `handlePostRecoveryFailure` locks down when the active region is not
marked Success, and not marked is what `PublishBmcEvents` leaves it. `HInv`: `Heard` says that
an intact active region which is not marked yet has its verification in front of any
recovery; `Refuting` and `Sparing` that a verification that fails found a bad region and that
a recovery of the recovery region leaves the active one alone; `AtRest`, `FirstUpdate` and
`LaterUpdates` that the queue is short when updates publish the verifications again, so
that none is dropped. Six places suffice.

`ProvisionProofs` proves, for all sets of values and keys and any number of commands,
resets and failures (`ProvisionAssumption` is the only assumption on the constants):

* `ProvisionTypeCorrect`: `Spec => []TypeOK`
* `ImplementsStore`: if reads do not fail, `Spec => StoreSpec`
* `EnabledIsBacked`: if no access fails, `Spec => []EnabledIsProvisioned`
* `ProvisionsWhatWasSent`: if no access fails, `Spec => ProvisionedAsSent`

The refinement maps the store to `View`: the sector, or the buffer between erase and
write, so that the erase is a stutter, the write one change, and a reset or a failed
write in between a wipe. It needs `Rewriting`: at the erase the buffer equals the
sector and at the write the sector is erased; the status word read earlier still has
every mark; the item being written is not marked; the new policy does not fall
behind the stored one. The last two theorems add `Sound`: no item is wiped, the status
word is the one stored, an item that was sent is in RAM as sent, an item whose flag is
being written is stored as it is in RAM, those before it are marked as well, and a
register equal to `UFM_PROVISIONED` has all flags behind it. The hypotheses are needed:
see the previous section for what happens without them.

`UfmPolicyProofs` proves what the encodings do, for every version up to 63 and every key
id: a version written is the version read (`SvnRoundTrip`), a larger one clears more
bits, a cancelled key is refused (`CancelRefuses`), no other becomes usable again
(`CancelOnlyRefuses`), and for ids below 128 no other one is affected (`CancelIsExact`).

`VersionsProofs` proves, for all capsules, keys, page maps and numbers of stagings,
resets and corruptions (`VersionsAssumption`; the versions of capsules are at most
`SVN_MAX`, which `check_svn_number` checks for updates and nothing checks for what
is in flash already):

* `VersionsTypeCorrect`: `Spec => []TypeOK`
* `RecordsWhatItReleases`: `Spec => []ReleasedIsRecorded`
* `NoUpdateGoesBack`: `Spec => []UpdateNotOlder`
* `CancelledKeysStayUnused`: `Spec => []CancelledNotWritten`
* `RewritingIsBacked`: `Spec => []RewritingHasBackup`
* `LocksDownOnlyWhenHopeless`: `Spec => []LockdownIsHopeless`
* `CutUpdatesRepeat`: `Spec => []CutUpdateRepeats`
* `TightensThePolicy`: `Spec => PolicyOnlyTightens`

Its inductive invariant `IInv` consists of `PolicyKept` (the version word is one that
`set_ufm_svn` writes, it holds `top`, and every key in `gone` is refused), `ActiveMark`
(an active region marked as good is recorded, or was recovered from the recovery
capsule, which is marked as good), `RecoveryMark` (a recovery capsule marked as good
authenticates, and is recorded or will be before the active region is judged),
`NoRecovery` (while there is no good recovery capsule the queue says how far the main
thread has come and what it found), `RewriteKept` (what a rewriting copies
authenticates, and for an update is recorded) and `ReleasedKept`. The marks are what the
properties do not say: that a release goes with the right flash depends on the
order in which two verifications and their recoveries were queued.

`CutUpdatesRepeat` needs more, since every start after a reset may raise the recorded
version: `KnownVersions` says that from the time an update may begin (`AtStake`) whatever
in flash would verify is recorded or a copy of the staged capsule, so that no
verification raises the version above the capsule's; `BackupKnown` that this is so when
the BMC is released, the recovery capsule behind it included.

`ManifestProofs` proves, for all blobs, versions and key ids (`ManifestAssumption` only
says what a blob is):

* `ManifestTypeCorrect`: `Spec => []TypeOK`
* `AcceptsOnlyAuthentic`: `Spec => []AcceptedIsAuthentic`
* `RefusesNothingAuthentic`: `Spec => []AuthenticIsAccepted`
* `OnlyAuthenticChangesPolicy`: `Spec => PolicyGuarded`
* `HrotVersionRises`: `Spec => []HrotOnlyNewer`

The invariant adds that every key in `gone` is refused (`KeysRefused`), that a key id below
128 is refused only if a cancellation in `gone` has struck it (`KeysKept`; `StrikesItself`
shows that one of an id below 128 strikes only the key it names), and that the version
being written is recorded (`Recording`). Nothing has to be said about the shared manifest: the proofs
show that each verification overwrites what it uses, or uses it in a way that does
not change the verdict.

`I2cMailboxProofs` proves, for all registers, values and item sizes, FIFOs of any
length and any number of event slots (`I2cAssumption`):

* `I2cTypeCorrect`: `Spec => []TypeOK`
* `WritesAreServedAsSent`: `Spec => []ServedAsSent`
* `ItemsAreAsSent`: `Spec => []ItemAsSent`
* `ReadsAreAnswered`: `Spec => []AnswersWhatWasAsked`
* `StaysInStep`: `Spec => []InStep`

None of them but the type invariant is inductive. `IInv` adds `Following` (the slave's
operation, buffer and count match the phase of the transaction), `Announced` (a command
that was announced has an event), `Owed` (a write that is owed is announced and in the
buffer), `Loose` (what is owed out of step is announced, and the buffer holds one of the
things it may be executed as), `NothingElse` (as long as nothing was disturbed, what is executed is owed: it
excludes that a stale event executes a byte twice), `Filled` (the FIFO holds the bytes
sent, but for the one still owed) and `Taken`.

Only model-checked: the liveness properties (`BmcDecided`, `CommandServed`, `BusyEnds`, `Decides`, `Served`), which are out of the prover's reach, and
`QueueBounded` with BMC resets, expiries or a command that comes while an event waits
(run `interrupts`). `QueueIsLinear` covers these cases for every number of them, with
larger factors: the tight ones depend on when an interrupt can arrive at all, and on what
the flash holds then. That
`LockdownHoldsBmc`, `RewriteHoldsBmc` and `ReleasesIntactBmc` also hold with few BMC resets or
watchdog expiries is known for the runs `release` and `watchdog` only; it is not true for
any number of them.

## Not modelled

The rules inside a PFM (SPI and SMBus regions, FVMs) are one fact in `Versions`: the
pages match or they do not. Of the HRoT's own flash there is only which version was
written completely. SPI and SMBus
filters program hardware once. Engine, key store and context managers only initialise
tables. The Cerberus PFR flow and `PublishPchEvents` are excluded by the build. Zephyr,
the Cerberus library, boards and drivers are vendored; they are nearly all of the
repository's lines.

## Plan

1. `BootCheckpoints`: checkpoints, boot-done flags and timers.
2. How far the hypotheses of `HrotReleaseProofs` and `HrotIntactProofs` can be weakened,
   for one BMC reset or watchdog expiry at a time.
3. The PCH in `Versions`, with the two processors' deferred updates in one start.
