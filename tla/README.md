# Formal model of the Zephyr UDS server

TLA+ modules for the UDS (ISO 14229-1) server in `src/`: what its services keep,
how the RX thread, the system workqueue, the sampling thread, the timer
callbacks and reboots interleave on that state, and what comes out right (or
does not) for the tester. Paths below are relative to the repository; `uds_*.c`
is in `src/`.

## The system

One RX thread (`uds_server.c`, priority 7) receives a request on the physical or
the functional address, restarts the S3 timer and calls one handler; nothing
else starts work. State is in file-scope statics without locks, shared with

- timer callbacks in interrupt context: S3 (`uds_session.c`), lockout
  (`uds_security.c`), two responsePending timers (`uds_routine.c`,
  `uds_clear_dtc.c`), the delayed reboot (`uds_reset.c`);
- the system workqueue, which runs the routine hook and the DTC clearing hook;
- the sampling thread of `uds_periodic.c` (priority 6: it preempts the RX thread);
- application hooks (`uds_app_*`), called synchronously from all of them.

| Component | State | Operations | Hard behaviour | What makes it correct |
|---|---|---|---|---|
| Session (0x10, 0x3E) | `current_session`, S3 timer | set, refresh, expiry | callback between test and act | a non-default session always has a running timer; silence ends it |
| Security (0x27) | `security_status`, attempt counter, lockout timer, two NVS entries | seed, key, lockout, expiry, boot | callbacks, reboots between NVS writes, failing NVS | lockout and its timer go together; the limit on wrong keys; no grant outlives its session |
| Gates (0x2E, 0x2F, 0x34) | none | read session, then status | two reads, a timeout between | both held together when the request was let through |
| Flashing (0x34, 0x36, 0x37) | `pipeline_state`, address, size, offset, block counter | download, block, exit | lost answers, retries, failing hooks, reboots, wrapping counter | flash holds what the tester thinks it wrote; only erased cells are written |
| Routine (0x31) | status, id, timer, work item | start, worker, 0x78 | new start while the old answer is sent | one answer per start, its own; 0x78 until then |
| Clear DTC (0x14) | group, `worker_done`, timer, work item | request, worker, 0x78 | shared workqueue, timer that restarts itself | same |
| Periodic (0x2A) | table of 5 DIDs, count | start, stop, sampling loop | preemption between two unguarded writes | only what was asked for is sampled |
| Reset (0x11) | reset type, timer | request, reboot | 50 ms in which requests go on | the answer precedes the reboot, which happens |
| Dynamic DID (0x2C, 0x22) | one slice | define, read | lengths at the boundary; the source is rewritten | the slice of the source record as it is now |
| Read DTC (0x19) | none (NVS) | report | entry by entry while the worker deletes | every entry reported was stored, none that matched is missing |
| VIN storage | RAM mirror, NVS entry | init, set | failing writes, reboots between write and answer | mirror and entry agree; a confirmed VIN lasts |
| Dispatch, NRCs | addressing of the request | route, answer | addressing is global and read later | one answer per request, silence only where ISO asks for it |

Components interact by calls from the RX thread (dispatch, gates), by shared
state (the gates read session and security), and through the kernel: timers, the
one workqueue for 0x31 and 0x14, one `tx_ctx` for all senders.

## Modules

`UdsSecurity` is the core: session, security and the part of the request loop
that drives them. The RX thread's control point is `pc`; a step ends wherever a
callback may preempt it between two accesses to shared state, so
`uds_session_refresh_timer` is a test and then a start or stop, 0x10 is
`ResetLockTest`, `Relock`, `SetSession`, `SetRefresh`, and a denied key is
`Denied`, `PersistCounter`, `Judge`, `PersistLockout`, `StartLockout`,
`AnswerWrongKey`. `S3Expiry` is one step (a callback is not preempted by a
thread); `LockoutExpiry` and `ClearNvs` are three, with `isr` as control point,
because a reboot may come between its NVS writes. `Reboot` cuts anything off and
`Boot` restores from NVS. The requests of other components appear as `other`,
and the gates as `download` and `actuate`. The variables `answered`, `fresh` and
`verify_fresh` are history: no action depends on them.

`AccessControl` is the abstract specification of that component: three
variables (session, open grant, lockout on record) and the ways they change. It
is what the other services may rely on. `UdsSecurity!Promise` is the refinement
mapping.

`UdsFlash` is the flashing pipeline, composed with `AccessControl` as its
environment: session and grant change between flash requests by `Access!Request`
(one RX thread), at any time by `Access!Expiry`, and with the pipeline by
`Access!Restart`. Flash is a function from cells to contents, a payload is a
range of cells of the image. Hooks succeed, or fail and leave the target
untouched, erased or damaged. The tester is part of the model: one request in
flight, a request or an answer may be lost, a block in doubt is repeated.

`UdsAsync` holds 0x31 and 0x14 together, since both use the one workqueue.
`worker` is the workqueue thread's control point, `rx` the RX thread's.
`k_work_submit` and `k_work_is_pending` follow Zephyr's documented behaviour:
an item that waits is not queued twice, an item that executes is queued again
and still counts as pending. The history variable `owed` is the request that
still has to be answered.

`UdsPeriodic` is the table of periodic identifiers between the two threads.

`UdsServer` is the server as its testers see it, and composes

- `UdsHooks`: what each hook of `uds_app_interface.h` may return, what the weak
  default returns, and the negative response the services make of an error.
- `UdsDispatch`: the request loop. `Receive` notes the addressing in the global,
  one action per kind of handler runs next, and `SendResponse` or `SendNrc` ends
  the request. Handlers with a module of their own appear by the hook they call
  and the answers they give. `DeferredAnswer` is the worker that answers an earlier
  request (0x14, 0x31) meanwhile. The timer callbacks in between send only 0x78,
  which `uds_send_nrc` never suppresses, and change nothing here: they are in
  `UdsAsync`.
- `UdsData`: 0x22, 0x2C and 0x2E on the VIN, the one record the subsystem keeps
  itself. `Persist` and `Mirror` are two steps, because a reboot may come between
  the NVS entry and its mirror. A byte a slice takes from outside the record is
  `Junk`: whatever was in memory.
- `UdsReset`: 0x11, with any other request in the 50 ms before the reboot.

Its reboots are the reset timer's and power losses. `frames`,
`confirmed`, `doubt` and `announced` are history.

`UdsDtc` extends `UdsAsync` by the trouble codes themselves: the loop of 0x19
over the NVS entries is one step per `nvs_read` (a read may fail and the entry
is skipped), the clearing hook deletes the entries of its group one by one, the
application records faults at any time, and a reboot cuts anything off. The
history `steady` and `seen` says which entries a report must and may contain,
`promised` which clearances were confirmed.

Abstract specifications say in a few actions what a component promises, with
everything that makes the code hard left out:

| Specification | Promise | Implemented by | Mapping |
|---|---|---|---|
| `AccessControl` | how session, grant and recorded lockout change | `UdsSecurity` | `Promise`, and `Grants` when NVS fails |
| `StopAndWait` | server and tester go through an image block by block, the server at most one block ahead | `UdsFlash` | `Transfers`: what the server counts, or, after a reboot, what an answer on its way still says (`Wrote`), against the tester's `next` |
| `DeferredService` | an accepted request has its hook run once, with its own argument, while the tester is told to wait, and is answered once | `UdsAsync`; with reboots (`CrashSpec`) `UdsDtc` | `Deferred`: a service has run from its hook's return to its answer; it tells its tester to wait while its timer sends 0x78 |
| `DurableRegister` | the VIN is one register that survives power losses | `UdsServer` | `Storage`: the value is the NVS entry's, or the default; a write takes effect in `Persist` and is unanswered until `Mirror` |

`UdsDispatch` needs of the deferred services only which of them owe an answer: its
`deferred` stands for the services `s` with `owed[s] # None`.

`MC*` modules and `.cfg` files instantiate these for TLC; `*Proofs` modules hold
the theorems, each about the module it is named after, and `UdsFlashRefinement`
the refinement that rests on `UdsFlashProofs`.

## Runs

| Run | Expects | Shows |
|---|---|---|
| `security` | pass | type, `S3Supervised`, `LockoutSupervised`, `FreshGrant`, `GateHolds`, `AnsweredFailuresBounded`, `NoVerifyUnderStoredLockout`, `WrapNeedsReboots`, refinement of `AccessControl`, and under fairness `QuietReturnsToDefault`, `StoredLockoutServed` |
| `security_attempts` | violation | a reboot between the two NVS writes admits a key beyond the limit |
| `security_quiet` | violation | the default session, once unlocked, is not locked by silence |
| `flash_transfer` | pass | `ImageIntegrity`, `IngestOnlyCleared`, `DownloadAuthorised` for a disciplined tester; refinement of `StopAndWait` (`BlockByBlock`) |
| `flash_overrun` | violation | a tester that sends more than it announced writes cells that were not erased |
| `flash_refused` | violation | a refused download leaves the earlier approval with the refused address |
| `async` | pass | one answer per accepted request, its own, supervised by 0x78, eventually sent; refinement of `DeferredService` (`RunOnceAnswerOnce`) |
| `async_confirm` | violation | a failed clearance is confirmed |
| `periodic_store_first` | pass | the table is safe if the slot is written before the count |
| `periodic_count_first` | violation | and is not if the build writes the count first |
| `server` | pass | `AnsweredOnce`, `VinDurable`, `DynamicReadsCurrent`, `ResetAnnounced`, refinement of `DurableRegister` (`VinIsRegister`), and under fairness `ResetHappens` |
| `dtc` | pass | `ReportComplete` while entries are cleared and recorded, `ClearedStaysCleared` over reboots and failed clearances, and refinement of `DeferredService` with its crashes (`RunOnceAcrossReboots`) |

Bounds, and why they are enough:

- `MAX_FAILED_ATTEMPTS = 2` distinguishes a key that locks out from one that does
  not; `MaxReboots = 3` lets a reboot hit the lockout, another its recovery, and
  three of them carry the attempt counter so far past its limit that it wraps:
  `CounterModulus = 5` stands for the 256 of the `uint8_t`, which would take 254
  reboots. The theorems hold for all values.
- Image of 3 cells, blocks of at most 2, block counter modulo 2: blocks of
  different length, and a counter that wraps within the image and after a
  repeated block. Two overlapping download areas in 5 cells: a cell can hold old
  content, an earlier block, or be outside the new area.
- Two routines and two groups: the next request can differ from the current one.
- Table of 3 slots, 2 identifiers: a table that fills up, with a duplicate.
- A VIN of 2 bytes over 2 values: a mixture of two VINs differs from both.
  Payloads too short, too long and of the right length; slices inside the
  record, across its end and before its start; a dynamic identifier of its own
  and one that is the VIN's.
- 2 entries, a group with one of them and one with both, two statuses that
  one mask tells apart and the other does not: an entry may be rewritten with a
  status that still matches.

`Disciplined` in `UdsFlash` is an assumption on the tester, not on the server: it
announces the image's true length, and after a refused or unanswered 0x34 it
sends no block before a download is accepted. `flash_overrun` shows what happens
without it.

Fairness: threads are scheduled, hooks and transmissions end, running kernel
timers expire; the S3 timer only while no request is handled, since each request
restarts it. Testers, link losses and reboots are under no obligation; reboots
are finitely many in `UdsSecurity` and free elsewhere. In `UdsServer` requests
are handled to the end and a boot comes to its end; the reset timer expires
unless requests restart it for ever, since each 0x11 starts its 50 ms anew; `ResetHappens`
has the same exception. In `UdsPeriodic` the RX thread has strong fairness for the
rest of a registration: the thread that preempts it sleeps 10 ms in every round.

Assumptions about the platform (external to `src/`): one processor; a cooperative
system workqueue (Zephyr's default priority), so that the RX thread runs only
while the worker is blocked; callbacks are not preempted by threads; a running
timer may expire at any moment (times are not compared); an NVS write is atomic.
Of the application: its read and write hooks pass the VIN's identifier on to
`uds_data_storage_get_vin` and `_set_vin`, and it calls `uds_data_storage_init`
at boot (`uds_init` does not); the reads of that boot succeed. Of the
configuration: an image fits the 32-bit address space (`FlashAssumption`).

## Theorems

Checked by TLAPS for every value of the constants that the named assumptions
admit. Each proof has the same shape: an inductive invariant `Inv` (`DtcInv`),
which holds the properties and the parts named below without which they are not
inductive; lemmas that every action keeps it; and theorems that read the
properties off it.

`UdsSecurityProofs`, for every limit, every number of reboots and both values of
`NvsFaults` unless said otherwise:

- `TypeCorrect`, `SessionsSupervised`, `LockoutsSupervised`, `GrantsFresh`,
  `GatesHold`. Besides the properties, `Inv` has `Control`, which says what the
  thread may still rely on at each control point although callbacks intervene
  (for instance: between the lockout test and the verdict the status is never
  the lockout; before the session is written there is no grant; a lockout timer
  never runs while a new lockout is being recorded), and `Bounded`, by which each
  reboot lets the attempt counter run at most one past the limit.
- `WrapsRare`, from `Bounded`: nothing bounds the reboots, so the `uint8_t` may wrap
  to 0, but only with the key after `CounterModulus - MAX_FAILED_ATTEMPTS` reboots
  (`~CounterHolds`).
- `NoVerification` and `Refinement`, for working NVS and any number of reboots:
  `Inv` together with `Record`, which ties RAM counter, NVS counter and NVS lockout
  to each other: that a stored lockout implies the lockout status depends on what
  a reboot, or a callback cut short, left in NVS.
- `FailuresBounded`, for working NVS while `CounterHolds`: `Count` besides, which ties
  the counters to the number of wrong keys answered. The condition is needed: a
  wrapped counter gives the tester its attempts anew.
- `RefinementWithoutNvs`, for failing NVS too: with lockouts left out of the
  mapping (`Grants`), sessions and grants still change only as `AccessControl`
  says, from `Inv` alone. `UdsFlash` uses `AccessControl` as its environment, and
  its gate reads session and grant only: its theorems need no working NVS.

`UdsFlashProofs`, for every image, block size, set of addresses, width of
addresses and of the block counter:

- `TypeCorrect`, `ImageKept`, `DownloadsAuthorised`. `Control` says which request
  each control point handles. `Transfer` is the heart: for a tester that is
  sending, server and tester agree on offset and block number, or the server is
  one block ahead, that block is in flash and its answer is lost or under way,
  or a reboot has made the server idle. `Accepted` hands over from 0x34.
  `wrongBlockSequenceCounter` therefore means "already written", even when the
  counter has wrapped, because a block number always differs from the next one.
- `IngestCleared`, assuming `Disciplined`: the cells from the offset on are
  cleared (`Clear`). `flash_overrun` shows that it needs the assumption.
- `DownloadsComplete`, assuming `Disciplined`: a positive answer to 0x37 means that
  the whole image is in flash. It follows from `ImageKept` and `ExitAtEnd`, that
  such a tester ends a transfer behind the last block; the server compares nothing.

`UdsFlashRefinement`, for the same constants and every tester: `Refinement`, that
`UdsFlash` implements `StopAndWait`. `Levels` reads off `Transfer` that the server is
level with the tester or ahead by the block in doubt. Each action then is one
abstract step or a stutter: a stored block is `Write`, a positive answer or
`wrongBlockSequenceCounter` is `Confirm`, and a reboot, or the loss of the last
answer that outlived one, is `Forget`.

`UdsAsyncProofs`, for every set of routines and groups: `TypeCorrect`,
`WorkMatched`, `RoutinesSupervised`, `ClearsSupervised`, `RoutinesAnswered`,
`ClearsAnswered`, and `Refinement`, that `UdsAsync` implements `DeferredService`.
`RoutineTie` and `ClearTie` say that a request is in one stage at a time
(handler, queue, hook, answer) and that the statics are those of the request
under way until its hook has taken them. In the refinement they show that the
timer is started before the hook can return (`Supervise` before `Run`), and that
what the worker took from the statics is what is owed.

`UdsDtcProofs`, for every number of entries, group, status and mask:
`DtcTypeCorrect`, `ReportsComplete`, `ClearingLasts`, `ServicesSurviveReboots`, `RefinementAcrossReboots`. It rests on
`UdsAsyncProofs`, since its steps are steps of `UdsAsync` (`AsyncSteps`) or a
reboot, which reestablishes the invariant and is the abstract `Restart`. `ReportTie` says that what
a report must contain still matches the mask, and that what the loop may read is
among what was stored meanwhile; `WipeTie` says that what the hook has passed is absent or recorded anew.

`UdsPeriodicProofs`, for every set of identifiers and size of the table:
`TypeCorrect`, in both orders of the two writes; `LateFrames` and
`OnlyRegistered`, assuming `StoreFirst`; and `Stray`, again in both orders: all the
wrong order can do is have the slot of a registration under way sampled before
it is written. `Counted` says that what is counted was asked for, but for that
slot; `Tie` bounds the late frames.

`UdsServerProofs`, for every length of the VIN, alphabet, payload and slice, with
a file system and without: `TypeCorrect`, `VinLasts`,
`SlicesCurrent`, `ResetsAnnounced`, `OneAnswer`, and `Refinement`, that `UdsServer`
implements `DurableRegister`. `Control` keeps the global addressing equal to the
request's, `VinTie` ties mirror, entry and request while a write is under way,
`ResetTie` the stored reset type to its confirmation. In the refinement
`VinDurable` shows that what `ReadApp` takes from the mirror is the value on record,
and `VinTie` that `Mirror` confirms what `Persist` has recorded.

`security` checks working NVS; with failing NVS the invariants rest on the proofs.
Every invariant, action property and refinement of a passing run is proved. Three
theorems are about properties that no run lists, checked with TLC before they were
proved: `DownloadComplete`, `GrantsWithoutNvs` and
`StrayOnlyWhileRegistering`. Only model-checked, because the prover does not treat fairness: `QuietReturnsToDefault`,
`StoredLockoutServed`, `RoutineServed`, `ClearServed`, `RegisteredSampled`,
`ResetHappens`.

## Findings

- `security_attempts`: `uds_security_init` locks out only on the lockout entry,
  so a reboot just after the counter was written gives one more attempt.
- `security_quiet`: security unlocked in the default session has no timeout,
  against the help text of `UDS_S3_TIMEOUT_MS`.
- `flash_refused`: 0x34 stores address and size before it knows whether the
  download is accepted.
- `flash_overrun`: nothing compares the bytes received with the announced size.
- `async_confirm`: 0x14 is answered positively when the hook failed.
- `periodic_count_first`: `active_periodic_dids[active_did_count++] = req[2]`.

Met while modelling, visible in a definition, with no run of its own:

- 0x22 answers a hook's `-ENOMEM` with responsePending, and nothing follows it;
  0x2A with an unknown transmission mode is not answered. Both are exceptions in
  `Silent`.
- The negative responses made of an errno are not those `uds_app_interface.h`
  documents: 0x2F makes 0x13 of `-EINVAL`, 0x22 makes 0x31 of `-EACCES`, and an
  error of a routine is a positive answer with status 0x02 (`UdsHooks`,
  `UdsAsync`). The modules follow the code.
- A dynamic definition replaces the one before, and may take the identifier of a
  record, which it then hides (`Define`). Its position and length are compared
  with nothing (`Slice`); `DynamicReadsCurrent` is about slices within the record.
- `Kconfig.uds:19-25` admits an `UDS_BUFF_SIZE` from 64 on, and a report of all 16
  entries takes 3 + 16 * 4 = 67 bytes: with 64, 65 or 66 the loop of
  `uds_read_dtc.c:72-82` runs past the buffer. It is arithmetic on the configuration,
  so the model has no buffer and no property says that a report fits it.
- After 256 less the limit reboots between the two NVS writes of a lockout, the
  attempt counter wraps and the tester has its attempts anew. The run `security`
  reaches the wrap; `WrapNeedsReboots` and `AnsweredFailuresBounded` say when.

## Not modelled

- `uds_trigger_event_response` (0x86): no code in `src/` calls it, so there is no
  order of calls to model.
- ISO-TP segmentation, the shared `tx_ctx`, and calls that block in a callback or
  in the worker while they send: behaviour of the library. A transmission is one
  event, and the worker waits for it.
- An answer that arrives after the tester repeated its request: the link loses
  messages, but keeps one request in flight.
- NVS entries that cannot be read at boot, other than as the `NvsFaults` of
  `UdsSecurity`; entries of another length than the code writes, which would leave
  part of the VIN's default overwritten.
- The length of the TX buffer.
- The bytes of seeds, keys and payloads, the two security levels, logging, time
  as a quantity, and malformed requests, which change nothing.
- The application's hooks behind 0x2F and 0x31, and key calculation, which
  nothing calls: partly, by their results only.

What could come next: late answers in `UdsFlash`, with the tester's timeout; and
the services with a module of their own put into `UdsServer` in place of the
hooks and answers by which they appear there.
