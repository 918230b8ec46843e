--------------------------- MODULE RecoveryMonitor ---------------------------
(***************************************************************************)
(* The module recovery check of pwl_core on PCIE devices: the thread       *)
(* mbim_monitor_thread_func of pwl_core.c, the persistent bootup failure   *)
(* count it keeps in /opt/pwl/bootup_status, the D-Bus handler             *)
(* request_fw_update_check that shares gb_recoverying with it, and the     *)
(* MBIM callback that answers its capability query.                        *)
(*                                                                         *)
(* Actors: the monitor thread (program counter pc), the GLib main loop of  *)
(* pwl_core (DeviceCapsCb, RequestFwUpdateCheck), the module itself (dev), *)
(* pwl_fwupdate, which receives the notices and keeps its eSIM state in    *)
(* the same file (program counter esim_pc), restarts of the service and    *)
(* reboots of the host.  Nothing locks the file.                           *)
(***************************************************************************)
EXTENDS Naturals, Sequences, StatusFile

CONSTANTS
    Limit,       \* g_bootup_failure_limit (MAX_BOOTUP_FAILURE or the config file)
    MaxRescan,   \* MAX_RESCAN_FAILURE
    MaxBoots,    \* bound: restarts of pwl_core and reboots of the host
    MaxNotices   \* bound: update-check notices not yet taken by pwl_fwupdate

ASSUME ConstantsAssumption ==
    /\ Limit \in Nat
    /\ MaxRescan \in Nat
    /\ MaxBoots \in Nat
    /\ MaxNotices \in Nat

VARIABLES
    pc,                       \* where the monitor thread (or main before it) is
    g_bootup_failure_count,
    g_rescan_failure_count,
    g_device_cap_check_pass,
    gb_recoverying,
    outstanding,              \* capability queries whose callback has not run
    exists,                   \* bootup_status exists on disk
    file,                     \* its content
    content,                  \* the buffer a setter is about to write
    dev,                      \* the port the module exposes
    notices,                  \* recovery-finish signals on their way to pwl_fwupdate
    updating,                 \* pwl_fwupdate is inside start_update_process_pcie
    esim_pc,                  \* where its set_bootup_status_value(ESIM_ENABLE_STATE) is
    esim_content,             \* the buffer of that call
    boots,                    \* restarts so far
    flashes,                  \* history: folder notices sent for boot failures
                              \* since the module last passed the check
    torn,                     \* history: a restart fell between truncation and write
    overlapped,               \* history: two accesses to the file overlapped
    unopened                  \* history: pwl_core could not open the file

core == <<pc, g_bootup_failure_count, g_rescan_failure_count,
          g_device_cap_check_pass, gb_recoverying, outstanding, content>>
disk == <<exists, file>>
esim == <<esim_pc, esim_content>>
fwupdate == <<notices, updating, esim>>
history == <<flashes, torn, overlapped, unopened>>
vars == <<core, disk, fwupdate, dev, boots, history>>

COUNT == "Bootup_failure_count"
ESIM  == "esim_enable"
Keys  == {COUNT, ESIM}

Records == [Keys -> Nat] \cup {EmptyRecord}

\* The ports of the module.  A module that a firmware update has switched to its
\* download mode shows the same fastboot port as one that fell into its loader.
Ports == {"none", "mbim", "fastboot"}
Labels == {"boot", "create", "sleep", "probe", "caps",
           "passRead", "passTrunc", "passWrite", "passNotify", "abnormal",
           "failRead", "failTrunc", "failWrite", "decide",
           "rescan", "leave", "idle"}
EsimLabels == {"none", "trunc", "write"}

\* The file is between the truncation and the write of pwl_core.
CoreWriting == pc \in {"create", "passWrite", "failWrite"}

\* pwl_core is inside an access to the file; pwl_fwupdate is.
CoreInside == CoreWriting \/ pc \in {"passTrunc", "failTrunc"}
EsimInside == esim_pc # "none"

Init ==
    /\ pc = "boot"
    /\ g_bootup_failure_count = 0
    /\ g_rescan_failure_count = 0
    /\ g_device_cap_check_pass = FALSE
    /\ gb_recoverying = FALSE
    /\ outstanding = 0
    /\ exists = FALSE
    /\ file = EmptyRecord
    /\ content = EmptyRecord
    /\ dev \in Ports
    /\ notices = <<>>
    /\ updating = FALSE
    /\ esim_pc = "none"
    /\ esim_content = EmptyRecord
    /\ boots = 0
    /\ flashes = 0
    /\ torn = FALSE
    /\ overlapped = FALSE
    /\ unopened = FALSE

-------------------------------------------------------------------------------
(* main: bootup_status_init, then get_bootup_status_value.                  *)

\* The value get_bootup_status_value leaves: its buffer is zeroed first, so a
\* file without the line reads as 0.
ReadCount(record) == IF HasLine(record, COUNT) THEN record[COUNT] ELSE 0

\* The file exists: read the count and start the monitor thread.
StartFromFile ==
    /\ pc = "boot"
    /\ exists
    /\ g_bootup_failure_count' = ReadCount(file)
    /\ overlapped' = (overlapped \/ EsimInside)
    /\ pc' = "sleep"
    /\ UNCHANGED <<g_rescan_failure_count, g_device_cap_check_pass, gb_recoverying,
                   outstanding, content, disk, fwupdate, dev, boots, flashes, torn,
                   unopened>>

\* The file does not exist: fopen(.., "w") creates it empty ...
CreateFile ==
    /\ pc = "boot"
    /\ ~exists
    /\ exists' = TRUE
    /\ file' = EmptyRecord
    /\ content' = [FreshRecord(Keys) EXCEPT ![ESIM] = 1]
    /\ pc' = "create"
    /\ UNCHANGED <<g_bootup_failure_count, g_rescan_failure_count,
                   g_device_cap_check_pass, gb_recoverying, outstanding,
                   fwupdate, dev, boots, history>>

\* ... and the two lines reach it when the stream is closed.
WriteFresh ==
    /\ pc = "create"
    /\ file' = content
    /\ content' = EmptyRecord
    /\ g_bootup_failure_count' = 0
    /\ pc' = "sleep"
    /\ UNCHANGED <<g_rescan_failure_count, g_device_cap_check_pass, gb_recoverying,
                   outstanding, exists, fwupdate, dev, boots, history>>

\* An fopen of either function fails: the count is 0, and a file that does not exist
\* is not created.
StartUnopened ==
    /\ pc = "boot"
    /\ g_bootup_failure_count' = 0
    /\ unopened' = TRUE
    /\ pc' = "sleep"
    /\ UNCHANGED <<g_rescan_failure_count, g_device_cap_check_pass, gb_recoverying,
                   outstanding, content, disk, fwupdate, dev, boots, flashes, torn,
                   overlapped>>

-------------------------------------------------------------------------------
(* mbim_monitor_thread_func.                                                *)

\* The delay of PWL_RECOVERY_CHECK_DELAY_SEC is over.
WakeUp ==
    /\ pc = "sleep"
    /\ gb_recoverying' = TRUE
    /\ pc' = "probe"
    /\ UNCHANGED <<g_bootup_failure_count, g_rescan_failure_count,
                   g_device_cap_check_pass, outstanding, content, disk, fwupdate,
                   dev, boots, history>>

\* Loop head: find_mbim_port; on success check_module_info_v2 clears the
\* verdict and sends the capability query.
Probe ==
    /\ pc = "probe"
    /\ \/ /\ dev = "mbim"
          /\ g_device_cap_check_pass' = FALSE
          /\ outstanding' = outstanding + 1
          /\ pc' = "caps"
       \/ /\ dev # "mbim"
          /\ pc' = "abnormal"
          /\ UNCHANGED <<g_device_cap_check_pass, outstanding>>
    /\ UNCHANGED <<g_bootup_failure_count, g_rescan_failure_count, gb_recoverying,
                   content, disk, fwupdate, dev, boots, history>>

\* device_caps_cb, on the main loop: within the three seconds the monitor
\* sleeps or after them.  Only a module in normal mode answers; every query
\* that fails or is aborted by the close ends with an empty answer.
UnsolicitedCapsCb(answered) ==   \* mutated form: no query need be outstanding
    /\ answered => dev = "mbim"
    /\ outstanding' = outstanding - 1
    /\ g_device_cap_check_pass' = answered
    /\ UNCHANGED <<pc, g_bootup_failure_count, g_rescan_failure_count,
                   gb_recoverying, content, disk, fwupdate, dev, boots, history>>

DeviceCapsCb(answered) ==
    /\ outstanding > 0
    /\ answered => dev = "mbim"
    /\ outstanding' = outstanding - 1
    /\ g_device_cap_check_pass' = answered
    /\ UNCHANGED <<pc, g_bootup_failure_count, g_rescan_failure_count,
                   gb_recoverying, content, disk, fwupdate, dev, boots, history>>

\* A module that answered: the count is cleared and saved.
UnsavedPass ==                   \* mutated form: the cleared count is not saved
    /\ g_device_cap_check_pass
    /\ g_bootup_failure_count' = 0
    /\ flashes' = 0
    /\ pc' = "passNotify"

Pass ==
    /\ g_device_cap_check_pass
    /\ g_bootup_failure_count' = 0
    /\ flashes' = 0
    /\ pc' = "passRead"

\* After the sleep the verdict is read, whatever callback set it.
ReadVerdict ==
    /\ pc = "caps"
    /\ \/ Pass
       \/ /\ ~g_device_cap_check_pass
          /\ pc' = "abnormal"
          /\ UNCHANGED <<g_bootup_failure_count, flashes>>
    /\ UNCHANGED <<g_rescan_failure_count, g_device_cap_check_pass, gb_recoverying,
                   outstanding, content, disk, fwupdate, dev, boots, torn, overlapped,
                   unopened>>

\* A fastboot port counts as one more bootup failure, whoever put the module
\* there; the count is saved before anything else happens.
UnsavedBootFailure ==            \* mutated form: the count is not saved
    /\ dev = "fastboot"
    /\ g_bootup_failure_count' = g_bootup_failure_count + 1
    /\ pc' = "decide"
    /\ UNCHANGED g_rescan_failure_count

BootFailure ==
    /\ dev = "fastboot"
    /\ g_bootup_failure_count' = g_bootup_failure_count + 1
    /\ pc' = "failRead"
    /\ UNCHANGED g_rescan_failure_count

\* No port at all counts as one more rescan failure.
UncountedRescanFailure ==        \* mutated form: the failure is not counted
    /\ dev # "fastboot"
    /\ pc' = "rescan"
    /\ UNCHANGED <<g_bootup_failure_count, g_rescan_failure_count>>

RescanFailure ==
    /\ dev # "fastboot"
    /\ g_rescan_failure_count' = g_rescan_failure_count + 1
    /\ pc' = "rescan"
    /\ UNCHANGED g_bootup_failure_count

FindAbnormalPort ==
    /\ pc = "abnormal"
    /\ BootFailure \/ RescanFailure
    /\ UNCHANGED <<g_device_cap_check_pass, gb_recoverying, outstanding, content,
                   disk, fwupdate, dev, boots, history>>

\* set_bootup_status_value: the old content is read and the new one computed,
SetRead(from, to) ==
    /\ pc = from
    /\ exists
    /\ content' = Rewrite(file, COUNT, g_bootup_failure_count)
    /\ overlapped' = (overlapped \/ EsimInside)
    /\ pc' = to
    /\ UNCHANGED <<g_bootup_failure_count, g_rescan_failure_count,
                   g_device_cap_check_pass, gb_recoverying, outstanding, disk,
                   fwupdate, dev, boots, flashes, torn, unopened>>

\* then fopen(.., "w") truncates the file,
SetTruncate(from, to) ==
    /\ pc = from
    /\ file' = EmptyRecord
    /\ pc' = to
    /\ UNCHANGED <<g_bootup_failure_count, g_rescan_failure_count,
                   g_device_cap_check_pass, gb_recoverying, outstanding, content,
                   exists, fwupdate, dev, boots, history>>

\* and the new content reaches it when the stream is closed.
SetWrite(from, to) ==
    /\ pc = from
    /\ file' = content
    /\ content' = EmptyRecord
    /\ pc' = to
    /\ UNCHANGED <<g_bootup_failure_count, g_rescan_failure_count,
                   g_device_cap_check_pass, gb_recoverying, outstanding,
                   exists, fwupdate, dev, boots, history>>

\* When one of its two fopen fails, which it does for a file that does not exist, the
\* value is not saved; nobody looks at the result.
SetUnopened(from, to) ==
    /\ pc = from
    /\ content' = EmptyRecord
    /\ unopened' = TRUE
    /\ pc' = to
    /\ UNCHANGED <<g_bootup_failure_count, g_rescan_failure_count,
                   g_device_cap_check_pass, gb_recoverying, outstanding, disk,
                   fwupdate, dev, boots, flashes, torn, overlapped>>

\* The module passed: pref and fwupdate are told to check for an update.
PassNotify ==
    /\ pc = "passNotify"
    /\ notices' = Append(notices, "flz")
    /\ pc' = "leave"
    /\ UNCHANGED <<g_bootup_failure_count, g_rescan_failure_count,
                   g_device_cap_check_pass, gb_recoverying, outstanding, content,
                   disk, updating, esim, dev, boots, history>>

\* The module is abnormal and the count is saved: ask fwupdate to flash the
\* saved folder unless the count is past the limit.  Both access() calls on
\* the flash data folders are the choice of haveFolder.
Decide(haveFolder) ==
    /\ pc = "decide"
    /\ \/ /\ g_bootup_failure_count <= Limit
          /\ haveFolder
          /\ notices' = Append(notices, "folder")
          /\ flashes' = flashes + 1
       \/ /\ g_bootup_failure_count > Limit \/ ~haveFolder
          /\ UNCHANGED <<notices, flashes>>
    /\ pc' = "leave"
    /\ UNCHANGED <<g_bootup_failure_count, g_rescan_failure_count,
                   g_device_cap_check_pass, gb_recoverying, outstanding, content,
                   disk, updating, esim, dev, boots, torn, overlapped, unopened>>

\* Neither port is there: do_pci_hw_reset(DEVICE_HW_RESCAN), whose result is
\* ignored, at most MAX_RESCAN_FAILURE times; then the flash folder is the
\* last resort.
Rescan(haveFolder) ==
    /\ pc = "rescan"
    /\ \/ /\ g_rescan_failure_count <= MaxRescan
          /\ dev' \in Ports
          /\ pc' = "probe"
          /\ UNCHANGED notices
       \/ /\ g_rescan_failure_count > MaxRescan
          /\ notices' = IF haveFolder THEN Append(notices, "folder") ELSE notices
          /\ pc' = "leave"
          /\ UNCHANGED dev
    /\ UNCHANGED <<g_bootup_failure_count, g_rescan_failure_count,
                   g_device_cap_check_pass, gb_recoverying, outstanding, content,
                   disk, updating, esim, boots, history>>

\* The thread ends.
Leave ==
    /\ pc = "leave"
    /\ gb_recoverying' = FALSE
    /\ pc' = "idle"
    /\ UNCHANGED <<g_bootup_failure_count, g_rescan_failure_count,
                   g_device_cap_check_pass, outstanding, content, disk, fwupdate,
                   dev, boots, history>>

\* One step of main and then of the monitor thread.
MonitorStep ==
    \/ StartFromFile
    \/ StartUnopened
    \/ CreateFile
    \/ WriteFresh
    \/ WakeUp
    \/ Probe
    \/ ReadVerdict
    \/ FindAbnormalPort
    \/ SetRead("passRead", "passTrunc")
    \/ SetTruncate("passTrunc", "passWrite")
    \/ SetWrite("passWrite", "passNotify")
    \/ \E from \in {"passRead", "passTrunc"} : SetUnopened(from, "passNotify")
    \/ PassNotify
    \/ SetRead("failRead", "failTrunc")
    \/ SetTruncate("failTrunc", "failWrite")
    \/ SetWrite("failWrite", "decide")
    \/ \E from \in {"failRead", "failTrunc"} : SetUnopened(from, "decide")
    \/ \E haveFolder \in BOOLEAN : Decide(haveFolder) \/ Rescan(haveFolder)
    \/ Leave

-------------------------------------------------------------------------------
(* The D-Bus handler, pwl_fwupdate, the module and restarts.                *)

\* request_fw_update_check: pwl_pref calls it when the SIM gets ready.  The main
\* loop runs it once main has started the monitor; it is skipped only while
\* gb_recoverying is set.
RequestFwUpdateCheck ==
    /\ pc \notin {"boot", "create"}
    /\ ~gb_recoverying
    /\ Len(notices) < MaxNotices
    /\ notices' = Append(notices, "flz")
    /\ UNCHANGED <<core, disk, updating, esim, dev, boots, history>>

\* signal_callback_notice_module_recovery_finish of pwl_fwupdate: the notice is
\* taken; the update data may be unusable or the module up to date.
TakeNotice(starts) ==
    /\ ~updating
    /\ notices # <<>>
    /\ notices' = Tail(notices)
    /\ updating' = starts
    /\ UNCHANGED <<core, disk, esim, dev, boots, history>>

\* start_update_process_pcie switches the module to its fastboot mode ...
UpdateSwitchesMode ==
    /\ updating
    /\ dev' = "fastboot"
    /\ UNCHANGED <<core, disk, fwupdate, boots, history>>

\* ... and resets it at the end, with whatever result.
UpdateEnds ==
    /\ updating
    /\ updating' = FALSE
    /\ dev' \in Ports
    /\ UNCHANGED <<core, disk, notices, esim, boots, history>>

\* update_esim_enable_state, on the message thread of pwl_fwupdate: the same
\* read, truncate and write for the other key of the file.
EsimRead(value) ==
    /\ esim_pc = "none"
    /\ exists
    /\ esim_content' = Rewrite(file, ESIM, value)
    /\ overlapped' = (overlapped \/ CoreInside)
    /\ esim_pc' = "trunc"
    /\ UNCHANGED <<core, disk, notices, updating, dev, boots, flashes, torn, unopened>>

EsimTruncate ==
    /\ esim_pc = "trunc"
    /\ file' = EmptyRecord
    /\ esim_pc' = "write"
    /\ UNCHANGED <<core, exists, notices, updating, esim_content, dev, boots, history>>

EsimWrite ==
    /\ esim_pc = "write"
    /\ file' = esim_content
    /\ esim_content' = EmptyRecord
    /\ esim_pc' = "none"
    /\ UNCHANGED <<core, exists, notices, updating, dev, boots, history>>

\* The second fopen fails: the file stays as it is.
EsimUnopened ==
    /\ esim_pc = "trunc"
    /\ esim_content' = EmptyRecord
    /\ esim_pc' = "none"
    /\ UNCHANGED <<core, disk, notices, updating, dev, boots, history>>

\* The module boots, crashes or falls into its loader on its own.
ModuleChanges ==
    /\ ~updating
    /\ dev' \in Ports \ {dev}
    /\ UNCHANGED <<core, disk, fwupdate, boots, history>>

\* pwl_core starts again from its initial memory; the disk keeps what it has,
\* also in the middle of a write.
Restart ==
    /\ boots < MaxBoots
    /\ boots' = boots + 1
    /\ pc' = "boot"
    /\ g_bootup_failure_count' = 0
    /\ g_rescan_failure_count' = 0
    /\ g_device_cap_check_pass' = FALSE
    /\ gb_recoverying' = FALSE
    /\ outstanding' = 0
    /\ content' = EmptyRecord
    /\ UNCHANGED <<disk, flashes, overlapped, unopened>>

\* Only the service fails and systemd restarts it.
CoreRestart ==
    /\ Restart
    /\ torn' = (torn \/ CoreWriting)
    /\ UNCHANGED <<fwupdate, dev>>

\* The host reboots or loses power.
HostReboot ==
    /\ Restart
    /\ torn' = (torn \/ CoreWriting \/ esim_pc = "write")
    /\ notices' = <<>>
    /\ updating' = FALSE
    /\ esim_pc' = "none"
    /\ esim_content' = EmptyRecord
    /\ dev' \in Ports

Next ==
    \/ MonitorStep
    \/ \E answered \in BOOLEAN : DeviceCapsCb(answered)
    \/ RequestFwUpdateCheck
    \/ \E starts \in BOOLEAN : TakeNotice(starts)
    \/ UpdateSwitchesMode
    \/ UpdateEnds
    \/ \E value \in {0, 1} : EsimRead(value)
    \/ EsimTruncate
    \/ EsimWrite
    \/ EsimUnopened
    \/ ModuleChanges
    \/ CoreRestart
    \/ HostReboot

Spec == Init /\ [][Next]_vars

\* The monitor thread is never blocked for ever: its waits are sleeps.
FairSpec == Spec /\ WF_vars(MonitorStep)

-------------------------------------------------------------------------------
(* Properties.                                                              *)

TypeOK ==
    /\ pc \in Labels
    /\ g_bootup_failure_count \in Nat
    /\ g_rescan_failure_count \in Nat
    /\ g_device_cap_check_pass \in BOOLEAN
    /\ gb_recoverying \in BOOLEAN
    /\ outstanding \in Nat
    /\ exists \in BOOLEAN
    /\ file \in Records
    /\ content \in Records
    /\ dev \in Ports
    /\ notices \in Seq({"flz", "folder"})
    /\ updating \in BOOLEAN
    /\ esim_pc \in EsimLabels
    /\ esim_content \in Records
    /\ boots \in 0..MaxBoots
    /\ flashes \in Nat
    /\ torn \in BOOLEAN
    /\ overlapped \in BOOLEAN
    /\ unopened \in BOOLEAN

\* Between two passes of the check the module is flashed from the saved folder
\* at most Limit times for boot failures, over any number of service restarts
\* and host reboots, provided no restart tore a write of bootup_status, no two
\* accesses to it overlapped and pwl_core could open it.
FlashBounded == (~torn /\ ~overlapped /\ ~unopened) => flashes <= Limit

\* A monitor that has ended, and was not disturbed, left on disk the count it
\* worked with: the next boot continues from it.
CountSaved ==
    (pc = "idle" /\ ~torn /\ ~overlapped /\ ~unopened /\ ~EsimInside) =>
        HasLine(file, COUNT) /\ file[COUNT] = g_bootup_failure_count

\* The count that a restart would find, if nothing tears it: while the file is
\* truncated it is in the buffer of the process that rewrites it.
SavedCount == ReadCount(IF CoreWriting THEN content
                        ELSE IF esim_pc = "write" THEN esim_content ELSE file)

Budget == INSTANCE RetryBudget
              WITH saved <- SavedCount, used <- flashes,
                   broken <- torn \/ overlapped \/ unopened

\* The text file that pwl_core and pwl_fwupdate read, truncate and write in turn
\* implements the atomic count of RetryBudget: a boot failure is on disk before the
\* flash it allows, and the count goes only after a pass.
ImplementsBudget == Budget!Spec

\* Every check ends: the thread reaches its end and releases gb_recoverying.
MonitorEnds == gb_recoverying ~> ~gb_recoverying

\* As FlashBounded, also when a power loss or a crash tears a write.
FlashBoundedDespiteTorn == ~overlapped /\ ~unopened => flashes <= Limit

===============================================================================
