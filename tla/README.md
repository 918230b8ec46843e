# A TLA+ verification project for the PWL modem services

The repository holds four Linux services for cellular modules on USB and PCIE:
`pwl_core`, `pwl_madpt`, `pwl_pref` and `pwl_fwupdate`. This project models the parts in
which something can go wrong that a test would hardly reach (threads of a process that
share globals, services that hand work to each other over queues and D-Bus, records on
disk that must survive a restart), checks them with TLC on small instances, and proves
the most important invariants with TLAPS for every value of the constants.

## 1. Inventory

| Component | State | Operations | Hard behaviour |
|---|---|---|---|
| Recovery check of `pwl_core` (`mbim_monitor_thread_func`) | failure counts, `gb_recoverying`, the capability verdict; `bootup_status` on disk | wait a minute, look for the MBIM port, query the capabilities, count a boot failure or rescan, ask for a flash | restarts between count, save and flash; a late capability answer; `pwl_fwupdate` writing the same file |
| GPIO reset of `pwl_core` (`gpio_reset_method`, `hw_reset`) | `DO_HW_RESET_COUNT` in `fw_update_status` | count, save, reset, tell `pwl_madpt` | crash around the reset; early returns that tell nobody; a D-Bus call that is never completed |
| MBIM session and SIM events of `pwl_core` | the open device, the bus | find the port, create, open, reopen after a failure, an error or a removal, turn indications into signals | a chain of callbacks that each must start the next try; signals emitted before the bus is there |
| Status records (`common.c`) | `fw_update_status`, `esim_profile_remove_status`, `bootup_status` | init, get, set | a set truncates first, never adds a line, and nothing locks |
| PCIE update of `pwl_fwupdate` | `g_is_fw_update_processing`, the update type, the image list, the flash table, the retry count | check the data, query versions, list images, generate and check the table, switch the module to fastboot, flash, reset, record | two threads run it on the same globals; one of several images fails; retries |
| USB update of `pwl_fwupdate` | `Need_retry_fw_update`, the counts, the eSIM record | eSIM test profile removal, version wait, preparation, download, reset and retry | a retry that passes through three services; a protocol over restarts |
| Queries of `pwl_fwupdate` | `g_mutex`, `g_cond`, one global per answer | send, wait with timeout, store, signal | lost signals, late answers, a mutex left locked |
| `pwl_madpt` | the MBIM device, its error count, `g_response`, `JP_FCC_CONFIG_COUNT` on disk | run an AT command per message, reopen after errors, restart, JP FCC and OEM configuration, wait for the recovery notice | two threads on one buffer, mutex and condition; abandoned commands that still answer; a device reopened under them |
| SN/IMEI backup and EFS recovery (`main` of `pwl_fwupdate`, `pwl_pref`) | `g_sn`, `g_imei`, `g_ati_info`, the status per query; the backup file | read both from the module at every start, write the backup or load it, flash the recovery image, restore both | an uninitialised counter; answers known only by a shared signal and an old status; a backup truncated at every start |
| `pwl_pref` | `g_sim_carrier`, `g_pref_carrier`, `g_mnc_len`, `g_check_sim_carrier_on_going`, `g_need_cxp_reboot`, the carrier id file, cached versions | refresh, read the carrier of the SIM, switch the preferred carrier, decide on a CXP reboot, answer queries | a handler that blocks the loop while SIMs change; late answers that end the wait of another request; a flag overwritten before it is asked for |
| fastboot client, D-Bus code, packaging, `pwl-unlock` | | | vendored, generated or without source |

How they interact. Requests and answers go through POSIX message queues of ten messages
(`mq_send` blocks when one is full; each service discards what waits in its queue when it
starts). `pwl_core` offers D-Bus methods (`gpio_reset_method`,
`request_fw_update_check_method`) and signals (the recovery notice, the SIM state). The
status records are shared files. systemd restarts each service after a failure
(`Restart=on-failure`), and `pwl_madpt` and `pwl_fwupdate` use `exit(1)` to be restarted.

What makes each correct. The recovery check: a module that cannot boot is flashed a
bounded number of times, over restarts, and the check ends. The GPIO reset: the number of
resets is bounded. The PCIE update: one update at a time, the flag is always released,
the flash folders, the only source of a recovery, go only when the module has their
images, and a failing update stops. The USB update: a failed download is retried, and
failures, resets and restarts come to an end. The queries: a query ends with an answer or
a timeout, leaves no lock behind, and a mandatory answer is there when it has been waited
for (the second of these the code does not keep, see section 5). `pwl_madpt`: a reply carries the answer to its own command, every request ends, and
the service reports its start and gets over errors of the device. The MBIM session always
comes back, and the preferred carrier of the module becomes that of its SIM. The EFS
recovery: a module that has lost SN or IMEI gets both back, the backup is never replaced
by less, and an intact module is left alone. The hazards behind these properties are
listed, each at its line, in `PROJECT.json`.

## 2. Modules

| Module | Models | Composes |
|---|---|---|
| `StatusFile` | the records of `common.c`: a function from the keys that have a line | |
| `RecoveryMonitor` | `mbim_monitor_thread_func`, its D-Bus handler and callback, `bootup_status` | `StatusFile`, an abstract `pwl_fwupdate` |
| `PcieUpdate`, `MCPcieUpdate` | `start_update_process_pcie` and its two callers | |
| `AnswerWait`, `MCAnswerWait` | queries of `pwl_fwupdate`, both forms of the wait, the message thread | |
| `UsbUpdate`, `MCUsbUpdate` | `start_update_process` and its three callers, `gpio_reset_method`, restarts of `pwl_madpt` | `pwl_fwupdate`, `pwl_core` and `pwl_madpt` |
| `Madpt`, `MCMadpt` | both threads of `pwl_madpt`, `pwl_mbimdeviceadpt.c`, the AT channel | libmbim, an abstract `pwl_core` and clients |
| `MbimSession` | the session of `pwl_core` with libmbim and the signals about the SIM | |
| `SimCarrier`, `MCSimCarrier` | both threads of `pwl_pref`, the carrier reboot of `pwl_fwupdate` | `MbimSession`, `pwl_pref`, abstract `pwl_madpt`, `pwl_core` and `pwl_fwupdate` |
| `EfsRecovery` | the EFS check of `pwl_fwupdate`, `post_message_queue_action`, the backup of `pwl_pref`, the recovery | `pwl_fwupdate`, `pwl_pref`, `pwl_madpt` and the module |
| `RetryBudget` | the abstract promise of a bounded, counted recovery | implemented by `RecoveryMonitor` and `UsbUpdate` |
| `*_proofs` | the theorems about the module they extend | |

An action is a run of code up to the next point where another thread, service or device
can be seen: a sleep, a wait, a file or device access. Names of variables and operators
are those of the source. `PROJECT.json` maps each definition to its lines. Operators with
the comment "mutated form" are deliberate mistakes that the mutation runs put in place of
the definition after them; no specification uses them.

### RecoveryMonitor

`pc` is the position of `main` and then of the monitor thread. Each call of
`set_bootup_status_value` is three steps: read and compute (`SetRead`), truncate
(`SetTruncate`), write (`SetWrite`); `pwl_fwupdate`'s call for its eSIM state is the same
three steps of another process. A file that cannot be opened ends a set, or the start,
with nothing saved (`SetUnopened`, `StartUnopened`). `DeviceCapsCb` runs on the main loop at any time while a
query is outstanding, so a late answer can be read as the verdict of a later query.
`CoreRestart` and `HostReboot` may fall anywhere. A module switched to fastboot by an
update shows the same port as one that fell into its loader, and counts as a boot failure.
`flashes`, `torn`, `overlapped` and `unopened` are history variables: boot-failure flashes
since the last pass, whether a restart fell between truncation and write, whether two
accesses to the file overlapped, and whether `pwl_core` could not open it.

### PcieUpdate

Two threads, `package` (inotify) and `main` (the recovery notice), go through
`check_update_data`, the test of the flag and `start_update_process_pcie`. An image is a
model value; a version either matches the package or not (`matches`, and an empty version
string matches any). XML files are the presence of `info`, `scatter` and `map`; the image
list is a sequence of entries with the `SKIP_` mark, overwritten and appended to as the code
does, so stale entries stay; the flash table is the set of the entries written to it (its
order is that of the scatter file, and nothing depends on it). `flash_image` either
installs an image or fails, after which the partition may or may not be intact. Setting a
status value is atomic here, `DO_HW_RESET_COUNT` (which PCIE never changes) is left out,
and `MaxList` stands for `MAX_DONWLOAD_IMAGES` (50). Progress dialogs are left out.
The versions come from `pwl_pref`, which answers in any mode of the module with what it
has kept since its last reading. `cache` says of each image whether `pwl_pref` has no
version, the one of the module (`current`), or, once the image was written to, an old one
that is the package's or not (`same`, `other`; `Outdated`); `PrefReads` is a reading, which
a module out of its normal mode does not answer. An attempt that is told that an image
matches while the module does not have it puts it into the history variable `misled`.
`get_current_fw_version` ends with `get_esim_enable_state`, whose `cond_wait` may leave
`g_mutex` locked (`AskEsim`, `EsimEnds`, `locked`); its result is ignored. The steps of a
wait are in `AnswerWait`; here every later query needs the mutex to be free. `main` asks for
the versions once before its loop.
`unzip` may leave files out (`lost`), its exit code being ignored: an image file that is
missing is left out of the list (`Listings`); a device image needs its mapping table, an
entry in it for the SKU and the eSIM state (`Naming`), its file and its checksum (`DevFound`);
without its description a part leaves the list as it was.
A behaviour begins by choosing one of `Scenarios`: which threads have something to do,
the images of a package, its parts, the files that may be missing, and how many packages,
notices, restarts and readings there are.

### AnswerWait

A thread works through a `Script` of queries. The direct form locks, waits and unlocks on
every path; the helper `cond_wait` first unlocks, whoever holds the mutex, and returns
locked after a timeout. The scripts of `MCAnswerWait` are the queries of a whole attempt:
the PCIE one ends with the eSIM state, the USB one has the JP FCC configuration and the
OEM PRI version, all three of them with the helper. What ends an attempt is part of the
query (`ends`: an empty result, retries that are used up, both or nothing), and so is
whether a signal without a result counts as a failed try (`again`). `missed`, a history
variable, has the threads whose last wait was a `cond_wait` that timed out. `Answer` is the other service, with or without a result;
`MessageThread` stores the answer and signals one waiting thread, if there is one.

### UsbUpdate

The threads `main`, `package` and `retry` run `start_update_process`. Queries and record
updates are atomic here (their steps are in `AnswerWait` and `RecoveryMonitor`), except
that the two lines of the eSIM record are written one after the other, and that what a
query leaves behind is kept: `locked` has the mutexes that a timed-out `cond_wait` has left
locked, `g_mutex` by the JP FCC configuration (`JpFccAnswered`) or `get_oem_pri_version`
(`CompareVersions`), `g_madpt_wait_mutex` by the waits for `pwl_madpt`. Every other query
needs `g_mutex` free (`CanLock`); a `cond_wait` first frees its mutex (`BeginWait`) and needs
it free again to return (`EndWait`), so that of two threads one can undo or bring about the
hang of the other. `started` and
`requests` count the `MADPT_RESTART` messages in the queues of `pwl_fwupdate` and
`pwl_madpt`, `calls` the D-Bus calls that wait for `gpio_reset_method`. `Scenarios` say
which threads have something to do, whether driving the reset line works (`gpio`), whether
the EFS check reports a loss (`efs`), whether `setup_download_parameter` fails (`fails`),
whether a `cond_wait` times out (`late`) and what the module says of the test profile
(`profile`), each as the set of possible outcomes, and how many packages and crashes there
are. What a recovery does to SN and IMEI is in `EfsRecovery`; here it is an attempt that
ends with a restart of the services. The history variables are `resets` and `removals`.

### Madpt

The thread `msg` is `msg_queue_thread_func`; `start` is `recovery_wait_thread_func` on
PCIE and `jp_fcc_thread_func` on USB. Both use `CommandStep`: send (`Request`), check the
error count and reopen the device (`CheckOk`, `Close`, `Reopen`), wait. `phase` says which
loop of the code a thread is in and `round` is its counter. An AT command is told apart
only as far as its reply is: `version` stands for the requests answered with `g_response`,
`carrier` for the one whose text is taken apart, `jp` and the restarts for those that send
commands of their own; `g_response` holds the command whose answer is in the buffer.
`Init` is the point in `main` at which the message thread starts; callbacks of libmbim run
only once `looping` holds. `pending` are the commands libmbim has, oldest first, and
`AtRespCb` their callbacks, which come whether or not anybody still waits. A signal wakes
one waiting thread, of its own or of another command, or nobody. `mutex = "left"` is the
mutex after a `cond_wait` that timed out: locked, with no thread about to unlock it; the
next `cond_wait` of any thread unlocks it, since it begins with an unlock.
`mixed` is a history variable: another user of `g_cond` or `g_response` got into a request.

The model relies on timings: libmbim ends a command after `PWL_CMD_TIMEOUT_SEC - 1`
seconds, one second before the wait for it ends, and creates a device object, which looks
at a local file, within a wait. The second mutex (`g_device_mutex`), which only
`pwl_mbimdeviceadpt_deinit` uses, is part of the action `Reopen`. `mbim_init` itself tries
until it finds a port, so the limit of 50 tries around it in `jp_fcc_config` is never
reached and has no action. `Exit` rests on a third: `restart()` does nothing while `gp_loop`
is NULL, but `main` creates it next after starting the message thread, and `restart()` is
reached only after the 15 seconds at the beginning of `jp_fcc_config`.

### MbimSession and SimCarrier

`MbimSession` is the chain `mbim_device_thread`, `device_new_cb`, `device_open_cb` and what
breaks it: a failure, an error of the open device, its removal. `indicated` says whether
the module has told the state of its SIM to the session; a signal emitted before the bus is
acquired is lost (`missed`). Only the chain that owns the session is modelled.

`SimCarrier` adds `pwl_pref`. The main loop handles one signal at a time; `stage` is the
request it is at, and `SendRequest`, `StartWait`, `TimeOut`, `LookAtResult` are one round of
any of its retry loops. `MessageThread` stores an answer, whichever request it is for, and
signals. A carrier is the SIM it belongs to, and a network code cut at the wrong length
(`CarrierFromSim`) is that of no SIM, hence `Generic`. On PCIE the refresh is two steps, the
versions and the comparison of carriers, and `pwl_fwupdate` asks for the CXP flag ten
seconds after its notice; `reboot` is a history variable that tells a reboot that is due
from one that got lost. Restarts of `pwl_core` are in `RecoveryMonitor`.

### EfsRecovery

There is one module, so SN and IMEI are each its own or missing: Booleans. Each call of
`post_message_queue_action` is the steps enter (with any number of tries, since `retry` is
not initialised; none at all is a fault), send, lock, wait, look. A signal for another
thread, an answer before the wait, a late answer, a refused command, a failing write, a
crash, a reboot of the host and a loss of the EFS each cost one of `MaxFaults`. The backup
file is truncated and written in two steps. Flashing the recovery image may wipe SN and
IMEI or leave them (external). A normal update is in `UsbUpdate` and ends the attempt here;
the other queries of the download, which neither read nor write SN and IMEI, are left out.
A PCIE module only gets its backup made. `kept` is a history variable: a whole backup was
written, and no rewriting has been cut short or failed since.

### RetryBudget

A count on disk (`saved`), the acts done (`used`), and one rule: an act is counted before
it is done, and done only up to the limit. `RecoveryMonitor` maps `saved` to the count
wherever it is (the file, or the buffer of the process that has the file truncated), `used`
to the flashes, and a torn, overlapped or refused access to `broken`, after which nothing is
promised. `UsbUpdate` maps `saved` to `DO_HW_RESET_COUNT` and `used` to the resets, and never
breaks it.

## 3. Runs

`tlc -workers 2 -config <cfg> <module>`; every run ends within about three and a half minutes.

| Run | Instance | Shows |
|---|---|---|
| `recovery_monitor` | Limit 1, one restart or reboot, one pending notice, one rescan | `TypeOK`, `FlashBounded`, `CountSaved`, `ImplementsBudget`, `MonitorEnds` |
| `recovery_monitor_torn` | the same | `FlashBoundedDespiteTorn` is violated |
| `pcie_update` | both threads with a package and a notice; the main loop with two packages, with several images (one may be missing) and a restart, with two readings of `pwl_pref`, or with missing descriptions | `TypeOK`, `FlagReleased`, `RemovedOnlyWhenInstalled`, `AttemptEnds` |
| `pcie_two_updates` | both threads | `OneUpdateAtATime` is violated |
| `pcie_update_never_stops` | the main loop | `UpdateStops` is violated |
| `answer_wait` | a PCIE attempt, a USB attempt, two threads with PCIE attempts; two attempts in all | `TypeOK`, `DoneMeansKnown`, `LockLeftByTimeout`, `AttemptEnds` |
| `sim_carrier` | two SIMs, USB with four events and PCIE with two, one fault | `TypeOK`, `CheckReleased`, `PreferredFollowsSim`, `CxpRebootFollows`, `SessionReturns` |
| `usb_update` | main and retry with waits that time out; main and package with a test profile that stays, or with waits that time out; main with one crash, EFS recovery, failing setups and resets | `TypeOK`, `ResetsBounded`, `RemovalsBounded`, `OneAttempt`, `ImplementsBudget`, `Settles`, `RetryFollows` |
| `efs_recovery` | two faults, up to two tries | `TypeOK`, `IdentityKept`, `IdentityReturns` |
| `efs_recovery_blind` | one fault | `RecoveryOnlyWhenLost` is violated |
| `madpt` | both device types and AT interfaces, `ErrMax` 2, one restart | `TypeOK`, `ReplyIsOwn`, `ErrorsHandled`, `RequestEnds`, `Starts`, `Recovers` |
| `madpt_recovery_timeout` | the same | `RequestEndsAfterTimeout` is violated |

Bounds. One restart is enough to lose a count and flash once too often, since `Limit` is 1
(the value of `MAX_BOOTUP_FAILURE`); one rescan more than the limit ends the loop whatever
the limit is. One package and one notice put both threads into the update; two packages
and two notices let an update start from what an earlier one left. Two attempts let the
answers of the first arrive in the second, and the second meet the mutex that the first left
locked. Two readings of `pwl_pref` let a version be read, become old and be read again. In
`UsbUpdate` `RetryTH` is the code's value; `HwResetTH`
(5 in the code), `JpTH` (3) and `QueueSize` (10) are small, so that the counters meet their
limits and a queue is full; the properties that need a calm system (`Calm`) are checked in
the scenarios without crashes, the others in all of them. In `SimCarrier` `Limit` (3) is the
code's value and `SimLimit` (12) is 4, enough for a late answer to each of two requests; two
events are a change of the SIM, and one fault is a timeout, a lost signal, an error or a
restart. In `EfsRecovery` two faults are a loss of the EFS and something that goes wrong in
its recovery; the run also passes with three. In `Madpt` `ErrMax` (2) and `JpTH` are
the code's values. A command without an answer counts as an error twice, by its callback
and by the timeout, so one fault (USB) reaches the limit and reopens the device, and two
(PCIE) let the reopening go wrong as well; a command sent while the device is being
opened, a missed signal and a misplaced notice count as faults too.
`MaxRestarts` bounds the reasons to restart, a JP FCC configuration left over from an
update among them, which itself restarts the service up to its threshold. `Limit` cuts
the loops of 3, 11, 20 and 5 rounds to one or two, `MaxNew` and `MaxPending` keep what
libmbim holds small. What the small values leave open for the counters is what the
theorems prove.

Deadlock is checked for `RecoveryMonitor`, whose module always changes; elsewhere a
system that has handled its events may stop (`CHECK_DEADLOCK FALSE`).

Fairness. `MonitorStep` is weakly fair: the waits of the monitor are sleeps. So is every
thread of `PcieUpdate`: its waits are sleeps, bounded loops, timed waits and the locking of
`g_mutex`, whose action is enabled only while the mutex is free: when it is left locked,
fairness gives nothing, and the thread is `Blocked`, which `AttemptEnds` and `UpdateStops`
name as the other outcome. `Blocked` has the same role in `AnswerWait` and `UsbUpdate`. In
`AnswerWait` the steps that acquire the mutex are strongly fair: a mutex that is free
again and again is obtained. In `UsbUpdate` the fairness of `VersionKnown` says that the
module answers the version query in the end; the loop around it (`pwl_fwupdate.c:3253`)
has no bound, so without that the code does wait for ever; that of `MadptStep` says that
`pwl_madpt` handles its messages, so that its own `g_mutex` has not been left locked (the run
`madpt_recovery_timeout` shows what happens when it has). In `Madpt` the two threads are
strongly fair (they compete for the mutex), the callbacks weakly (libmbim has timeouts of
its own), and `Receive("version")` is strongly fair: the other services go on asking, which
`Recovers` needs. In `SimCarrier` the services, libmbim and the bus go on, and a module that
resets shows its port again. In `EfsRecovery` every thread and service that can go on does;
`IdentityReturns` speaks of a start after the last fault, so that the loops of
`post_message_queue_action` run and the module answers. No fairness is assumed of
crashes, packages, notices, answers of other services or of what the module does.

## 4. Proofs

`tlapm <module>` checks them. Every invariant, every action property and both refinements
that a passing run checks are proved, for arbitrary constants that satisfy the assumptions
of the module, which TLC evaluates on every run. The assumptions are types, distinct model
values and bounds that are not zero where the code starts with one of something; one of them
says more: `MustAssumption` of `AnswerWait`, that a result which ends the attempt when it is
empty does so wherever the script asks for it again (each global has one query function
with one check). Each inductive invariant was checked with TLC before it was proved.

- `RecoveryMonitor_proofs`: `FlashBounded` is not inductive, because `flashes` counts
  requests and the code only compares `g_bootup_failure_count`. `IInv` relates the two at
  each step: while nothing is torn, overlapped or refused, the count in memory equals the count on
  disk (`Persisted`: the file, or the buffer of `pwl_fwupdate` while that has the file
  truncated), or is one more while a failure is being saved, and `flashes` never exceeds
  the count on disk. `LineSomewhere` says where the line of the count is while the file is
  rewritten. `TypeStep` and `IInvStep` go through the actions; the facts about records are
  lemmas. Theorems: `Invariance`, `TypeCorrect`, `FlashesAreBounded`, `CountIsSaved`, and
  `FlashesKeepToBudget`, the refinement of `RetryBudget`: `IInv` says that a flash finds
  `used < saved <= Limit`, and each of the three steps of a rewriting maps to a step or a
  stutter, since `SavedCount` follows the line through the buffers.
- `RetryBudget`: `ActsAreBounded`, what the abstract promise means.
- `PcieUpdate_proofs`: `FlagIsReleased`: each thread enters `Section` only in the step
  that sets the flag and leaves it only in steps that clear it. `TypeCorrect`: the list keeps
  its entries (`OverwriteSeq`) and its count stays within it. And the action property,
  `RemovedWhenInstalled`. Its invariant `SourceInv` follows an image from the versions that
  came, over the list (`ListIsComplete`) and the table (`TableIsComplete`), to the images
  still to be flashed: at each place of the attempt, an image file of the folders that is
  left out belongs to an image that the module has, or is in `misled`. Since the version
  comes from `cache`, the step `VersionArrives` is where an image enters `misled`: `Shown`
  without the image being installed. `PackageInv` adds that the folders hold the package
  that the attempt is about. The property's own guard (`WholePackages`, the main loop alone)
  names the cases in which TLC finds it to fail; the theorem has no other hypothesis.
- `AnswerWait_proofs`: `LockIsLeftByTimeout`, for any scripts of both forms and any number
  of threads, though a helper query unlocks the mutex of whoever holds it; `TypeCorrect`; and
  `ResultsComplete`. `DoneMeansKnown` speaks of the end of a script; `ResultInv` says at every
  place that the mandatory results of the queries that are over are known, except for the
  one that the thread has just emptied to ask for it again (here `MustAssumption` is used:
  that query cannot be left without it). Answers of other queries only add results.
- `UsbUpdate_proofs`: `ResetsAreBounded` and `ResetsKeepToBudget` (`GpioReset` is the
  saving, `HwReset` the act, every other step a stutter). The invariant adds to `resets` the reset that is
  counted but not yet done, and bounds both by the count on disk. `TypeCorrect`.
  `OneAttemptAtATime`: nothing but `Need_retry_fw_update` keeps main and the retry thread
  apart; `TurnInv` says that the right to run an attempt is in one place, with main, with the
  retry thread, in the saved request or in the flag that wakes the retry thread.
  `RemovalsAreBounded`: the removals done and those that the eSIM record still allows
  together are the allowance (`RecordInv`), also while a thread has decided on a removal
  that it has not saved yet (`AttemptInv`). The last two need that nothing has crashed and
  no package has come, as the properties say.
- `Madpt_proofs`: `RepliesAreOwn`, for any error limit and number of faults, restarts and
  pending commands. `ReplyIsOwn` is not inductive: a late answer could be stored after the
  next request has been taken. The invariant `Own` says that libmbim holds at most one
  command of the message thread, the one of the request in hand, only while the thread is
  at a place where it still waits for it, and that the buffer is empty or holds that
  command's answer; `PhaseInv` says in which phase a
  thread can be at which place. The timing above (`TimesOut` waits for the callback) is
  what makes it hold; a notice or the other thread breaks it, hence `mixed`. `TypeCorrect`
  (the buffer holds answers because `PhaseInv` says what is pending) and `ErrorsAreHandled`:
  an error is counted by a callback, so `HandledInv` needs `Own` (the message thread has no
  command with libmbim between its check and its next request) and that a second thread that
  sends no commands has none pending; `DeviceInv` says which threads can do what on which
  type of module, in particular that the second thread of PCIE sends none and that the AT
  channel counts no errors.
- `EfsRecovery_proofs`: `TypeCorrect` and `IdentityIsKept`, for any number of tries and
  faults. `IdentityKept` is not inductive: what may not reach the file must not be in a
  queue either. `KeepInv` adds that every request to write the backup, and every answer
  that fills `g_sn` and `g_imei` from it, carries both; that both are there while a backup
  call runs; and that the file is empty or whole.
- `SimCarrier_proofs`: `CheckIsReleased`. The property is inductive; the proof goes through
  every way out of the handlers. `TypeCorrect` has two parts that are more than types.
  `HandlerInv`: a loop never makes more tries than its limit, though the two requests of a
  SIM share one counter (`StageOrder` says which stage leads where), and `g_is_sim_insert` is
  set while the handler of a SIM is at work. `CarrierInv`: the carrier that is compared and
  set is never the empty string, which rests on what is in the queues (`GoodRequests`,
  `GoodAnswers`): a good answer about the SIM was given with a SIM inserted.

Only model-checked: the liveness properties (`MonitorEnds`, the two `AttemptEnds`,
`PreferredFollowsSim`, `CxpRebootFollows`, `SessionReturns`, `Settles`, `RetryFollows`,
`IdentityReturns`, `RequestEnds`, `Starts`, `Recovers`): they rest on fairness, and neither
`ENABLED` nor `WF_` is within the prover's reach. The properties that a run refutes have no
theorem.

## 5. What the checks found

Five runs expect a violation; the findings in `PROJECT.json` quote the lines.

1. A restart between truncation and write of `bootup_status` loses the count for good
   (in the trace, at its creation, `common.c:924`; the setter, 969, has the same two steps).
2. Two PCIE updates can work on the module at the same time.
3. A PCIE update that keeps failing is retried for ever: its count is saved before it is
   incremented.
4. `cond_wait` leaves the mutex locked after a timeout. In `pwl_madpt` a recovery wait that
   times out blocks the message thread for ever. `pwl_fwupdate` hangs the same way: after a
   JP FCC configuration that took longer than 600 s ("timed out or error for jpp config,
   continue...", `pwl_fwupdate.c:3295`) the next query, at 3299, locks the mutex its own thread
   holds (2213); after an eSIM query without an answer (2691) the next PCIE attempt does (2160);
   after `get_oem_pri_version` (2565) every later query.
5. The EFS check takes an ATI query that was not answered (status `TIMEOUT`, or a signal
   meant for another thread) for one that was, counts SN and IMEI as missing and flashes the
   recovery image on a module that has them.

Other results, each found by changing constants or a guard of a passing run:

- `RemovedOnlyWhenInstalled` fails without `\cup misled`: an attempt from the unzipped folder
  fails and damages an image whose version `pwl_pref` has read before, or an old version of
  the module happens to be that of the new package; the next attempt marks the image `SKIP_`
  and removes the only source of a recovery. It also fails with both threads, with
  device-only packages after another package (`kinds`: the image list is not reset) and with
  a missing description (`lost`), which looks like an up-to-date package.
- Without `Blocked`, `AttemptEnds` of `PcieUpdate` and of `AnswerWait` and `Settles` fail: the
  hang of finding 4. `RetryFollows` needs no such exception: a download that failed was
  reached by a thread that did not hang, and it is the only one at work.
- `Settles` fails when `efs` may be TRUE: an EFS recovery that does not restore SN and IMEI
  restarts the services again and again. `RetryFollows` fails with a failing reset line or a
  crash of `pwl_core`: nobody restarts `pwl_madpt`. `RemovalsBounded` fails with two updating
  threads. After a crash main and the retry thread can work together (`OneAttempt`).
- A failed parameter setup tells the user of a retry that no step starts. Neither
  `Fw_Update_Retry_Count` of USB nor `DO_HW_RESET_COUNT` is ever reset, so two setup failures, or
  enough resets, refuse every later update and EFS recovery as well.
- `ReplyIsOwn` and
  `Recovers` fail without `mixed` (a recovery notice that ends the wait of a command shifts
  the answers by one); `FlashBounded` fails without its `~overlapped` and without its `~unopened`.
- With `MaxFaults` 2 `PreferredFollowsSim` fails: a late CRSM answer and an error of the
  second CRSM request clear `g_mnc_len` before the CIMI answer, and the module is left with the
  generic carrier (`pwl_pref.c:908-943`).
- A CXP reboot can be lost (`reboot = "lost"`): a second refresh takes the flag back, the
  question comes before the flag is raised, `pwl_pref` restarts with the id already in its
  file, or the question times out. The file does not say what the module booted with.
- The test "Abort when sim not insert" in `get_sim_carrier_info` (`pwl_pref.c:426`) never
  fires: the handler that clears the flag waits for the one that tests it (`TypeOK`).
- A restoring that ended with status `TIMEOUT` counts as done and is only found out by the
  next start. When a restarted `pwl_fwupdate` gets the answer to its predecessor's query for
  the backup, it takes SN and IMEI that the ATI answer does not show for present, and does
  not recover (the guard `~g_sn /\ ~g_imei` of `IdentityReturns`).

## 6. Not modelled, and the plan

Not modelled for good: the vendored fastboot client and the USB I/O (their results are
choices), generated D-Bus code, packaging, the `pwl-unlock` binary, dialogs and logging; the
suspend handlers of `pwl_core`, which log and write one sysfs value.

Not modelled yet: the selection and ordering of images (`prepare_update_images`, the
`arrange_*` functions and the comparison of versions), whose result is the choice of
`CompareVersions`. Read from the code only, and not checked: a package without a
firmware image can never be flashed, because the key is decoded from the firmware list only
(`pwl_fwupdate.c:2893-2911`), when `clean_oem_pri_version` has already run; and
`arrange_carrier_pri_image` without a matching carrier moves the first image to the end.

Next, in this order:

1. The JP FCC count of `Madpt` as a third implementation of `RetryBudget`.
2. Pure functions: version comparison and image arrangement as operators against reference
   definitions.
3. The safety part of the liveness properties as theorems: that a thread which waits always
   has somebody who will answer, or a timeout.

The order of the modules was that of the plan: the recovery check first, since a mistake
there flashes a module without end, then the two updates and the waits they rest on, then
the service that every AT command goes through, then the carrier of the SIM and the
identity of the module, which pass through all four services.
