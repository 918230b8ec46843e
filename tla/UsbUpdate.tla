------------------------------- MODULE UsbUpdate -------------------------------
(***************************************************************************)
(* The firmware update of USB modules: start_update_process of             *)
(* pwl_fwupdate and everything that makes it start again.                  *)
(*                                                                         *)
(* A failed download saves Need_retry_fw_update = 1 and asks pwl_core for  *)
(* a GPIO reset (gpio_reset_method).  pwl_core counts the reset, resets    *)
(* the module and tells pwl_madpt to restart.  The restarted pwl_madpt     *)
(* reports to pwl_fwupdate, whose message thread then clears the request   *)
(* and raises g_retry_fw_update, and the retry thread runs                 *)
(* start_update_process again.  The removal of the eSIM test profile, a    *)
(* protocol over restarts of the services, is part of the process.         *)
(*                                                                         *)
(* Three threads run start_update_process: main at startup, the package    *)
(* monitor and the retry thread.  Nothing excludes them from each other.   *)
(*                                                                         *)
(* The setters of fw_update_status and of the eSIM record are atomic here  *)
(* (RecoveryMonitor has their truncation and their overlaps), and so is a  *)
(* query to another service, signalled or timed out (AnswerWait has the    *)
(* waits).  What a query leaves behind is kept: a cond_wait that timed out *)
(* leaves its mutex locked, and every later pthread_mutex_lock of it, and  *)
(* every wait that returns, hangs until some cond_wait unlocks it again.   *)
(***************************************************************************)
EXTENDS Naturals

CONSTANTS
    RetryTH,      \* FW_UPDATE_RETRY_TH
    HwResetTH,    \* HW_RESET_RETRY_TH
    JpTH,         \* JP_FCC_CONFIG_RETRY_TH
    DeleteTries,  \* the value the eSIM deletion counter starts from (2)
    QueueSize,    \* PWL_MQ_MAX_MSG: mq_send blocks when the queue is full
    MaxCalls,     \* bound: calls of gpio_reset_method not yet served
    Scenarios     \* what may happen: the threads that have something to do, whether
                  \* driving the reset line works (gpio), the EFS check finds the SN
                  \* and IMEI lost (efs), the parameter setup fails (fails), a
                  \* cond_wait times out (late), and what the module says of the test
                  \* profile (profile: "gone", "there" or, no answer, "none"), each a
                  \* set of the possible outcomes, and how many packages and crashes of
                  \* a service there are

Threads == {"main", "package", "retry"}

ASSUME ConstantsAssumption ==
    /\ {RetryTH, HwResetTH, JpTH} \subseteq Nat
    /\ {DeleteTries, QueueSize, MaxCalls} \subseteq Nat \ {0}
    /\ \A s \in Scenarios :
           /\ s.threads \subseteq Threads
           /\ s.gpio \cup s.efs \cup s.fails \cup s.late \subseteq BOOLEAN
           /\ s.profile \subseteq {"gone", "there", "none"} /\ s.profile # {}
           /\ {s.packages, s.crashes} \subseteq Nat

VARIABLES
    pc,                           \* where each thread of pwl_fwupdate is
    need_retry,                   \* main's copy of Need_retry_fw_update
    efs,                          \* efs_recovery_mode of each thread's attempt
    phase,                        \* 1 or 2: which of the two eSIM checks it is in
    g_fw_update_retry_count,
    g_do_hw_reset_count,
    g_testprofile_delete_counter,
    g_testprofile_delete_done,
    g_esim_profile_chk_result,    \* "none" is -1
    g_retry_fw_update,
    locked,                       \* the mutexes that a cond_wait has left locked
    file,                         \* fw_update_status: fields retry, hw, need, jp
    record,                       \* esim_profile_remove_status: counter, done
    zip,                          \* the package is there
    current,                      \* the module has its version
    started,                      \* MADPT_RESTART messages for pwl_fwupdate
    requests,                     \* MADPT_RESTART messages for pwl_madpt
    madpt_pc,                     \* where pwl_madpt is
    calls,                        \* calls of gpio_reset_method not yet served
    core_pc,                      \* where its handler is
    scenario,                     \* one of Scenarios
    packages, crashes,            \* counters of its bounds
    resets,                       \* history: runs of hw_reset
    removals                      \* history: restarts for the test profile since
                                  \* it was gone, given up or allowed anew

memory == <<g_fw_update_retry_count, g_do_hw_reset_count, g_testprofile_delete_counter,
            g_testprofile_delete_done, g_esim_profile_chk_result, g_retry_fw_update,
            locked>>
counts == <<g_fw_update_retry_count, g_do_hw_reset_count>>
profile == <<g_testprofile_delete_counter, g_testprofile_delete_done,
             g_esim_profile_chk_result>>
locals == <<need_retry, efs, phase>>
module == <<zip, current>>
peers  == <<started, requests, madpt_pc, calls, core_pc>>
bounds == <<scenario, packages, crashes>>
vars == <<pc, locals, memory, file, record, module, peers, bounds,
          resets, removals>>

\* The labels of start_update_process, up to the end of the download, and the rest.
Work    == {"start", "esim", "saveNext", "saveRemove", "remove", "status", "version",
            "prepare", "jpWait", "queries", "setup", "tune", "download", "madptWait",
            "finish", "ati"}
Results == {"setupFailed", "failed", "succeeded"}
Labels  == Work \cup Results \cup {"boot", "wait", "check", "gpio", "called", "idle"}

Goto(t, label) == pc' = [pc EXCEPT ![t] = label]

Mutexes == {"g_mutex", "g_madpt_wait_mutex"}

\* pthread_mutex_lock of g_mutex in a query that returns it unlocked.
CanLock == "g_mutex" \notin locked

\* cond_wait begins: it unlocks the mutex, whoever has left it locked.
BeginWait(mutex) == locked' = locked \ {mutex}

\* cond_wait ends, signalled or timed out; either way it has to lock the mutex, and
\* after a timeout it returns with it.
EndWait(mutex) ==
    /\ mutex \notin locked
    /\ \/ FALSE \in scenario.late /\ UNCHANGED locked
       \/ TRUE \in scenario.late /\ locked' = locked \cup {mutex}

Fresh == [t \in Threads |-> IF t = "main" /\ t \in scenario.threads THEN "boot"
                            ELSE "idle"]

Init ==
    /\ scenario \in Scenarios
    /\ pc = Fresh
    /\ need_retry = 0
    /\ efs = [t \in Threads |-> FALSE]
    /\ phase = [t \in Threads |-> 1]
    /\ g_fw_update_retry_count = 0
    /\ g_do_hw_reset_count = 0
    /\ g_testprofile_delete_counter = 0
    /\ g_testprofile_delete_done = 0
    /\ g_esim_profile_chk_result = "none"
    /\ g_retry_fw_update = FALSE
    /\ locked = {}
    /\ file = [retry |-> 0, hw |-> 0, need |-> 0, jp |-> 0]
    /\ record = [counter |-> 0, done |-> 0]
    /\ zip \in BOOLEAN
    /\ current \in BOOLEAN
    /\ started = 0
    /\ requests = 0
    /\ madpt_pc = "start"
    /\ calls = 0
    /\ core_pc = "idle"
    /\ packages = 0
    /\ crashes = 0
    /\ resets = 0
    /\ removals = 0

-------------------------------------------------------------------------------
(* main, before its loop.                                                   *)

\* main reads the request once, with the message thread already running, and begins
\* to wait for pwl_madpt.
ReadNeed(t) ==
    /\ pc[t] = "boot"
    /\ need_retry' = file.need
    /\ BeginWait("g_madpt_wait_mutex")
    /\ Goto(t, "wait")
    /\ UNCHANGED <<efs, phase, counts, profile, g_retry_fw_update, file, record, module, peers, bounds,
                   resets, removals>>

\* cond_wait on g_madpt_wait_cond, signalled or timed out; then, if a retry is
\* wanted, main leaves the work to the retry thread.
WaitForMadpt(t) ==
    /\ pc[t] = "wait"
    /\ EndWait("g_madpt_wait_mutex")
    /\ Goto(t, IF need_retry = 1 THEN "idle" ELSE "check")
    /\ UNCHANGED <<locals, counts, profile, g_retry_fw_update, file, record, module,
                   peers, bounds, resets, removals>>

\* The EFS check (EfsRecovery has it; it may find a loss where there is none), the
\* version, the zip file and its extraction; start_update_process needs them all.
CheckAtStartup(t) ==
    /\ pc[t] = "check"
    /\ CanLock
    /\ \/ /\ Goto(t, "idle")
          /\ UNCHANGED efs
       \/ /\ zip
          /\ efs' \in {[efs EXCEPT ![t] = e] : e \in scenario.efs}
          /\ Goto(t, "start")
    /\ UNCHANGED <<need_retry, phase, memory, file, record, module, peers, bounds,
                   resets, removals>>

-------------------------------------------------------------------------------
(* The other two threads.                                                   *)

\* monitor_package_func2: a package arrives and is extracted.
PackageArrives(t) ==
    /\ t = "package" /\ t \in scenario.threads
    /\ pc[t] = "idle"
    /\ packages < scenario.packages
    /\ packages' = packages + 1
    /\ zip' = TRUE
    /\ current' \in BOOLEAN
    /\ efs' = [efs EXCEPT ![t] = FALSE]
    /\ Goto(t, "start")
    /\ UNCHANGED <<need_retry, phase, memory, file, record, peers, scenario, crashes,
                   resets, removals>>

\* monitor_retry_func.
StickyRetryWakes(t) ==         \* mutated form: the flag is not cleared
    /\ t = "retry" /\ t \in scenario.threads
    /\ pc[t] = "idle"
    /\ g_retry_fw_update
    /\ efs' = [efs EXCEPT ![t] = FALSE]
    /\ Goto(t, "start")
    /\ UNCHANGED <<need_retry, phase, memory, file, record, module, peers,
                   bounds, resets, removals>>

RetryWakes(t) ==
    /\ t = "retry" /\ t \in scenario.threads
    /\ pc[t] = "idle"
    /\ g_retry_fw_update
    /\ g_retry_fw_update' = FALSE
    /\ efs' = [efs EXCEPT ![t] = FALSE]
    /\ Goto(t, "start")
    /\ UNCHANGED <<need_retry, phase, counts, profile, locked, file, record, module,
                   peers, bounds, resets, removals>>

\* The message thread: pwl_madpt has (re)started.
LostRequest ==                 \* mutated form: the retry thread is not told
    /\ started > 0
    /\ started' = started - 1
    /\ file' = [file EXCEPT !.need = 0]
    /\ UNCHANGED <<pc, locals, memory, record, module, requests, madpt_pc,
                   calls, core_pc, bounds, resets, removals>>

MadptStarted ==
    /\ started > 0
    /\ started' = started - 1
    /\ IF file.need = 1
       THEN file' = [file EXCEPT !.need = 0] /\ g_retry_fw_update' = TRUE
       ELSE UNCHANGED <<file, g_retry_fw_update>>
    /\ UNCHANGED <<pc, locals, counts, profile, locked, record, module, requests,
                   madpt_pc, calls, core_pc, bounds, resets, removals>>

-------------------------------------------------------------------------------
(* The eSIM test profile: check_esim_test_profile_process.                  *)

\* The entry of start_update_process: the record of earlier runs is read, and a
\* counter that is not 0 means that a deletion has been tried.
Start(t) ==
    /\ pc[t] = "start"
    /\ g_testprofile_delete_counter' = record.counter
    /\ g_testprofile_delete_done' = record.done
    /\ phase' = [phase EXCEPT ![t] = 1]
    /\ Goto(t, IF record.counter # 0 THEN "esim" ELSE "status")
    /\ UNCHANGED <<need_retry, efs, counts, g_esim_profile_chk_result, g_retry_fw_update,
                   locked, file, record, module, peers, bounds, resets, removals>>

\* Where start_update_process goes on after the check.
AfterEsim(t) == IF phase[t] = 1 THEN "status" ELSE "setup"

\* The module says whether the profile is gone, or says nothing in three tries.
\* The counter is saved now, the decision in the next step.
ProfileGone(t) ==
    /\ g_esim_profile_chk_result' = "gone"
    /\ g_testprofile_delete_counter' = 0
    /\ g_testprofile_delete_done' = 1
    /\ record' = [record EXCEPT !.counter = 0]
    /\ removals' = 0
    /\ Goto(t, "saveNext")

UncountedProfileThere(t, answer) == \* mutated form: the counter is not saved
    /\ g_esim_profile_chk_result' = answer
    /\ g_testprofile_delete_counter' = DeleteTries
    /\ Goto(t, "remove")
    /\ UNCHANGED <<record, g_testprofile_delete_done, removals>>

UnderflowingProfileThere(t, answer) == \* mutated form: 0 is counted down, too
    /\ g_esim_profile_chk_result' = answer
    /\ g_testprofile_delete_counter' = g_testprofile_delete_counter - 1
    /\ record' = [record EXCEPT !.counter = g_testprofile_delete_counter - 1]
    /\ Goto(t, "remove")
    /\ UNCHANGED <<g_testprofile_delete_done, removals>>

ProfileThere(t, answer) ==
    LET counter == IF g_testprofile_delete_counter = 0 THEN DeleteTries
                   ELSE g_testprofile_delete_counter - 1
    IN  /\ g_esim_profile_chk_result' = answer
        /\ g_testprofile_delete_counter' = counter
        /\ record' = [record EXCEPT !.counter = counter]
        /\ IF counter = 0
           THEN Goto(t, "saveRemove") /\ g_testprofile_delete_done' = 2
           ELSE Goto(t, "remove") /\ UNCHANGED g_testprofile_delete_done
        /\ UNCHANGED removals

CheckProfile(t) ==
    /\ pc[t] = "esim"
    /\ CanLock
    /\ \/ "gone" \in scenario.profile /\ ProfileGone(t)
       \/ \E answer \in {"there", "none"} \cap scenario.profile : ProfileThere(t, answer)
    /\ UNCHANGED <<locals, counts, g_retry_fw_update, locked, file, module, peers,
                   bounds, resets>>

SaveDone(t) ==
    /\ pc[t] \in {"saveNext", "saveRemove"}
    /\ record' = [record EXCEPT !.done = g_testprofile_delete_done]
    /\ Goto(t, IF pc[t] = "saveRemove" THEN "remove" ELSE AfterEsim(t))
    /\ UNCHANGED <<locals, memory, file, module, peers, bounds, resets, removals>>

\* The memory of pwl_fwupdate is new; the disk stays.  main discards the messages
\* that wait in its queue.
Reborn ==
    /\ pc' = Fresh
    /\ need_retry' = 0
    /\ efs' = [t \in Threads |-> FALSE]
    /\ phase' = [t \in Threads |-> 1]
    /\ g_fw_update_retry_count' = 0
    /\ g_testprofile_delete_counter' = 0
    /\ g_testprofile_delete_done' = 0
    /\ g_esim_profile_chk_result' = "none"
    /\ g_retry_fw_update' = FALSE
    /\ locked' = {}
    /\ started' = 0

\* restart_madpt_and_fwupdate_service.
RestartServices ==
    /\ Reborn
    /\ requests < QueueSize
    /\ requests' = requests + 1

\* do_esim_test_profile_remove_command: the delete command was answered; the
\* services restart, and the next start checks the result.  A check that got no
\* answer left -1 behind, which this loop takes for its own result.
RemoveAnswered(t) ==
    /\ pc[t] = "remove"
    /\ CanLock
    /\ g_esim_profile_chk_result # "none"
    /\ RestartServices
    /\ removals' = removals + 1
    /\ UNCHANGED <<g_do_hw_reset_count, file, record, module, madpt_pc, calls, core_pc,
                   bounds, resets>>

\* The command failed, or seems to have: the removal is given up.
RemoveFails(t) ==
    /\ pc[t] = "remove"
    /\ CanLock
    /\ g_testprofile_delete_counter' = 0
    /\ g_testprofile_delete_done' = 2
    /\ record' = [record EXCEPT !.counter = 0]
    /\ removals' = 0
    /\ Goto(t, "saveNext")
    /\ UNCHANGED <<locals, counts, g_esim_profile_chk_result, g_retry_fw_update, locked,
                   file, module, peers, bounds, resets>>

-------------------------------------------------------------------------------
(* start_update_process, after the first check.                             *)

\* The thresholds.
ReadStatus(t) ==
    /\ pc[t] = "status"
    /\ g_fw_update_retry_count' = file.retry
    /\ g_do_hw_reset_count' = file.hw
    /\ Goto(t, IF file.retry > RetryTH \/ file.hw > HwResetTH THEN "idle" ELSE "version")
    /\ UNCHANGED <<locals, profile, g_retry_fw_update, locked, file, record, module,
                   peers, bounds, resets, removals>>

\* The loop that waits for the AP version has no bound; it ends when the module
\* answers.  An EFS recovery goes straight to the download.
VersionKnown(t) ==
    /\ pc[t] = "version"
    /\ CanLock
    /\ Goto(t, IF efs[t] THEN "setup" ELSE "prepare")
    /\ UNCHANGED <<locals, memory, file, record, module, peers, bounds,
                   resets, removals>>

\* A module of the wrong category ends the attempt at once.  Otherwise the JP FCC
\* configuration is counted as begun and asked for.
PrepareUpdate(t) ==
    /\ pc[t] = "prepare"
    /\ \/ /\ Goto(t, "idle")
          /\ UNCHANGED <<file, locked>>
       \/ /\ file' = [file EXCEPT !.jp = 1]
          /\ BeginWait("g_mutex")
          /\ Goto(t, "jpWait")
    /\ UNCHANGED <<locals, counts, profile, g_retry_fw_update, record, module, peers,
                   bounds, resets, removals>>

\* pwl_madpt has answered, or 600 s have passed ("continue..."); it may have done the
\* configuration.
JpFccAnswered(t) ==
    /\ pc[t] = "jpWait"
    /\ EndWait("g_mutex")
    /\ file' \in {file, [file EXCEPT !.jp = 0]}
    /\ Goto(t, "queries")
    /\ UNCHANGED <<locals, counts, profile, g_retry_fw_update, record, module, peers,
                   bounds, resets, removals>>

\* The version, get_oem_pri_version, the images, the carrier, the SKU id and the
\* comparison: any of them may end the attempt, and an update that is not needed
\* does.  Only get_oem_pri_version, when its last try timed out, leaves g_mutex
\* locked.
CompareVersions(t) ==
    /\ pc[t] = "queries"
    /\ \/ /\ EndWait("g_mutex")
          /\ Goto(t, "idle")
          /\ UNCHANGED phase
       \/ /\ CanLock
          /\ ~current
          /\ phase' = [phase EXCEPT ![t] = 2]
          /\ Goto(t, IF g_testprofile_delete_done = 0 THEN "esim" ELSE "setup")
          /\ UNCHANGED locked
    /\ UNCHANGED <<need_retry, efs, counts, profile, g_retry_fw_update, file, record,
                   module, peers, bounds, resets, removals>>

\* arrange_oem_pri_image: an OEM PRI image for this SKU needs two more queries, whose
\* failure only leaves the image out.
ArrangeOemImage(t) ==
    /\ pc[t] = "setup"
    /\ ~efs[t]
    /\ Goto(t, "tune")
    /\ UNCHANGED <<locals, memory, file, record, module, peers, bounds,
                   resets, removals>>

\* The rest of setup_download_parameter; only its failures count as failed updates.
EagerSetupDownload(t) ==       \* mutated form: the retry is asked for before the download
    /\ pc[t] = "setup" \/ (pc[t] = "tune" /\ CanLock)
    /\ file' = [file EXCEPT !.need = 1]
    /\ Goto(t, "download")
    /\ UNCHANGED <<locals, memory, record, module, peers, bounds, resets, removals>>

SetupDownload(t) ==
    /\ pc[t] = "setup" \/ (pc[t] = "tune" /\ CanLock)
    /\ \/ /\ TRUE \in scenario.fails
          /\ g_fw_update_retry_count' = g_fw_update_retry_count + 1
          /\ file' = [file EXCEPT !.retry = g_fw_update_retry_count + 1]
          /\ Goto(t, "setupFailed")
       \/ /\ FALSE \in scenario.fails
          /\ Goto(t, "download")
          /\ UNCHANGED <<g_fw_update_retry_count, file>>
    /\ UNCHANGED <<locals, g_do_hw_reset_count, profile, g_retry_fw_update, locked,
                   record, module, peers, bounds, resets, removals>>

\* download_process: the switch to fastboot, the unlocking and the flashing of the
\* images may fail, and the module may not come back after it.
DownloadFails(t) ==
    /\ pc[t] = "download"
    /\ current' \in BOOLEAN
    /\ Goto(t, "failed")
    /\ UNCHANGED <<locals, memory, file, record, zip, peers, bounds,
                   resets, removals>>

\* The images are on the module and its port is back: pwl_madpt is told to restart.
DownloadSucceeds(t) ==
    /\ pc[t] = "download"
    /\ requests < QueueSize
    /\ current' = TRUE
    /\ requests' = requests + 1
    /\ BeginWait("g_madpt_wait_mutex")
    /\ Goto(t, "madptWait")
    /\ UNCHANGED <<locals, counts, profile, g_retry_fw_update, file, record, zip, started,
                   madpt_pc, calls, core_pc, bounds, resets, removals>>

\* pwl_madpt has reported, or 300 s have passed.
MadptBack(t) ==
    /\ pc[t] = "madptWait"
    /\ EndWait("g_madpt_wait_mutex")
    /\ Goto(t, "finish")
    /\ UNCHANGED <<locals, counts, profile, g_retry_fw_update, file, record, module,
                   peers, bounds, resets, removals>>

\* The preferred carrier is set; a removal that was given up may be tried again with
\* the next update.
FinishDownload(t) ==
    /\ pc[t] = "finish"
    /\ efs[t] \/ CanLock
    /\ IF g_testprofile_delete_done = 2
       THEN /\ g_testprofile_delete_done' = 0
            /\ record' = [record EXCEPT !.done = 0]
            /\ removals' = 0
       ELSE UNCHANGED <<g_testprofile_delete_done, record, removals>>
    /\ Goto(t, "ati")
    /\ UNCHANGED <<locals, counts, g_testprofile_delete_counter, g_esim_profile_chk_result,
                   g_retry_fw_update, locked, file, zip, current, peers, bounds, resets>>

\* An EFS recovery restores SN and IMEI (EfsRecovery); the OEM PRI version is set and
\* ATI is sent.
LastQueries(t) ==
    /\ pc[t] = "ati"
    /\ CanLock
    /\ Goto(t, "succeeded")
    /\ UNCHANGED <<locals, memory, file, record, module, peers, bounds,
                   resets, removals>>

\* An EFS recovery restarts the services, whatever its result.
EndEfsRecovery(t) ==
    /\ pc[t] \in Results
    /\ efs[t]
    /\ RestartServices
    /\ UNCHANGED <<g_do_hw_reset_count, file, record, module, madpt_pc, calls, core_pc,
                   bounds, resets, removals>>

\* Any other attempt that failed tells the user that it will be retried; only a
\* failed download asks for it, and then for the reset.
EndAttempt(t) ==
    /\ pc[t] \in Results
    /\ ~efs[t]
    /\ file' = IF pc[t] = "failed" THEN [file EXCEPT !.need = 1] ELSE file
    /\ Goto(t, IF pc[t] = "failed" THEN "gpio" ELSE "idle")
    /\ UNCHANGED <<locals, memory, record, module, peers, bounds, resets, removals>>

\* pwl_core_call_gpio_reset_method_sync; the handler sends no reply, so the call
\* returns when D-Bus gives up.
CallGpioReset(t) ==
    /\ pc[t] = "gpio"
    /\ calls < MaxCalls
    /\ calls' = calls + 1
    /\ Goto(t, "called")
    /\ UNCHANGED <<locals, memory, file, record, module, started, requests, madpt_pc,
                   core_pc, bounds, resets, removals>>

CallReturns(t) ==
    /\ pc[t] = "called"
    /\ Goto(t, "idle")
    /\ UNCHANGED <<locals, memory, file, record, module, peers, bounds,
                   resets, removals>>

-------------------------------------------------------------------------------
(* pwl_core and pwl_madpt.                                                  *)

\* gpio_reset_method: the reset is counted and saved first.
UnsavedGpioReset ==            \* mutated form: the count is not saved
    /\ core_pc = "idle"
    /\ calls > 0
    /\ calls' = calls - 1
    /\ core_pc' = IF file.hw <= HwResetTH THEN "reset" ELSE "idle"
    /\ UNCHANGED <<pc, locals, memory, file, record, module, started, requests, madpt_pc,
                   bounds, resets, removals>>

GpioReset ==
    /\ core_pc = "idle"
    /\ calls > 0
    /\ calls' = calls - 1
    /\ \/ /\ file.hw <= HwResetTH
          /\ file' = [file EXCEPT !.hw = @ + 1]
          /\ core_pc' = "reset"
       \/ /\ file.hw > HwResetTH
          /\ UNCHANGED <<file, core_pc>>
    /\ UNCHANGED <<pc, locals, memory, record, module, started, requests, madpt_pc,
                   bounds, resets, removals>>

\* hw_reset: without a known reset line, or when one of the two writes to it fails,
\* it returns early and tells nobody.
HwReset ==
    /\ core_pc = "reset"
    /\ core_pc' = "idle"
    /\ resets' = resets + 1
    /\ \/ /\ TRUE \in scenario.gpio
          /\ requests < QueueSize
          /\ requests' = requests + 1
       \/ /\ FALSE \in scenario.gpio
          /\ UNCHANGED requests
    /\ UNCHANGED <<pc, locals, memory, file, record, module, started, madpt_pc, calls,
                   bounds, removals>>

\* pwl_madpt handles MADPT_RESTART by exiting; systemd starts it and its main
\* discards what waits in its queue.
MadptRestarts ==
    /\ madpt_pc = "up"
    /\ requests > 0
    /\ requests' = 0
    /\ madpt_pc' = "start"
    /\ UNCHANGED <<pc, locals, memory, file, record, module, started, calls, core_pc,
                   bounds, resets, removals>>

\* jp_fcc_thread_func: an unfinished JP FCC configuration is tried again, with one
\* more restart, a bounded number of times; then pwl_fwupdate is told.
MadptStarts ==
    /\ madpt_pc = "start"
    /\ \/ /\ file.jp \in 1..(JpTH - 1)
          /\ file' \in {[file EXCEPT !.jp = n] : n \in {0, file.jp + 1}}
          /\ UNCHANGED <<madpt_pc, started>>
       \/ /\ file.jp \notin 1..(JpTH - 1)
          /\ started < QueueSize
          /\ started' = started + 1
          /\ madpt_pc' = "up"
          /\ UNCHANGED file
    /\ UNCHANGED <<pc, locals, memory, record, module, requests, calls, core_pc,
                   bounds, resets, removals>>

-------------------------------------------------------------------------------
(* Crashes: systemd starts the service again.                               *)

Crash ==
    /\ crashes < scenario.crashes
    /\ crashes' = crashes + 1
    /\ UNCHANGED <<scenario, packages>>

FwupdateCrash ==
    /\ Crash
    /\ Reborn
    /\ UNCHANGED <<g_do_hw_reset_count, file, record, module, requests, madpt_pc, calls,
                   core_pc, resets, removals>>

MadptCrash ==
    /\ Crash
    /\ madpt_pc' = "start"
    /\ requests' = 0
    /\ UNCHANGED <<pc, locals, memory, file, record, module, started, calls, core_pc,
                   resets, removals>>

CoreCrash ==
    /\ Crash
    /\ core_pc' = "idle"
    /\ calls' = 0
    /\ UNCHANGED <<pc, locals, memory, file, record, module, started, requests, madpt_pc,
                   resets, removals>>

-------------------------------------------------------------------------------
ThreadStep(t) ==
    \/ ReadNeed(t)
    \/ WaitForMadpt(t)
    \/ CheckAtStartup(t)
    \/ RetryWakes(t)
    \/ Start(t)
    \/ CheckProfile(t)
    \/ SaveDone(t)
    \/ RemoveAnswered(t)
    \/ RemoveFails(t)
    \/ ReadStatus(t)
    \/ VersionKnown(t)
    \/ PrepareUpdate(t)
    \/ JpFccAnswered(t)
    \/ CompareVersions(t)
    \/ ArrangeOemImage(t)
    \/ SetupDownload(t)
    \/ DownloadFails(t)
    \/ DownloadSucceeds(t)
    \/ MadptBack(t)
    \/ FinishDownload(t)
    \/ LastQueries(t)
    \/ EndEfsRecovery(t)
    \/ EndAttempt(t)
    \/ CallGpioReset(t)
    \/ CallReturns(t)

CoreStep  == GpioReset \/ HwReset
MadptStep == MadptRestarts \/ MadptStarts

Next ==
    \/ \E t \in Threads : ThreadStep(t) \/ PackageArrives(t)
    \/ MadptStarted
    \/ CoreStep
    \/ MadptStep
    \/ FwupdateCrash
    \/ MadptCrash
    \/ CoreCrash

Spec == Init /\ [][Next]_vars

\* Every thread and every service that can go on does, and a thread that waits for a
\* mutex gets it only while nobody has left it locked; the module answers the query
\* for its version in the end, for which start_update_process waits; and pwl_madpt
\* handles its messages, that is, no timeout of its own waits has left the g_mutex of
\* that process locked (Madpt.RequestEndsAfterTimeout is about that).
FairSpec ==
    /\ Spec
    /\ \A t \in Threads : WF_vars(ThreadStep(t))
    /\ WF_vars(MadptStarted)
    /\ WF_vars(CoreStep)
    /\ WF_vars(MadptStep)

-------------------------------------------------------------------------------
(* Properties.                                                              *)

\* The shape of the state; the queues never hold more than their size, and the
\* counts on disk never pass their thresholds by more than one.
TypeOK ==
    /\ scenario \in Scenarios
    /\ pc \in [Threads -> Labels]
    /\ need_retry \in {0, 1}
    /\ efs \in [Threads -> BOOLEAN]
    /\ phase \in [Threads -> {1, 2}]
    /\ g_fw_update_retry_count \in Nat
    /\ g_do_hw_reset_count \in 0..(HwResetTH + 1)
    /\ g_testprofile_delete_counter \in 0..DeleteTries
    /\ g_testprofile_delete_done \in 0..2
    /\ g_esim_profile_chk_result \in {"none", "there", "gone"}
    /\ g_retry_fw_update \in BOOLEAN
    /\ locked \subseteq Mutexes
    /\ file \in [retry : Nat, hw : 0..(HwResetTH + 1), need : {0, 1}, jp : Nat]
    /\ record \in [counter : 0..DeleteTries, done : 0..2]
    /\ {zip, current} \subseteq BOOLEAN
    /\ started \in 0..QueueSize
    /\ requests \in 0..QueueSize
    /\ madpt_pc \in {"start", "up"}
    /\ calls \in 0..MaxCalls
    /\ core_pc \in {"idle", "reset"}
    /\ packages \in 0..scenario.packages
    /\ crashes \in 0..scenario.crashes
    /\ resets \in Nat
    /\ removals \in Nat

\* However often updates fail and services crash, the module is reset at most once
\* more than HW_RESET_RETRY_TH: the count is on disk before the reset.
ResetsBounded == resets <= HwResetTH + 1

Budget == INSTANCE RetryBudget
              WITH Limit <- HwResetTH + 1, saved <- file.hw, used <- resets,
                   broken <- FALSE

\* gpio_reset_method and hw_reset, with all that threads, failures and crashes put
\* between them, implement the atomic count of RetryBudget: a reset is on disk
\* before it is done.
ImplementsBudget == Budget!Spec

\* The services restart at most once more than the counter says to remove the test
\* profile, as long as no crash falls between the two lines of its record.
RemovalsBounded == crashes = 0 /\ packages = 0 => removals <= DeleteTries + 1

\* main and the retry thread, which use the same globals and the same module, never
\* work at the same time, although only the saved request keeps them apart.  After a
\* crash the message thread may clear it before main has read it, and a package starts
\* its thread at any time.
OneAttempt ==
    crashes = 0 /\ packages = 0 =>
        \A t, u \in Threads : pc[t] \in Work \cup Results /\ pc[u] \in Work \cup Results
                                  => t = u

\* Nothing crashes, the reset line works and SN and IMEI are there.
Calm == scenario.crashes = 0 /\ scenario.gpio = {TRUE} /\ scenario.efs = {FALSE}

\* A thread that hangs: what it does next needs a mutex that a cond_wait which timed
\* out (in itself or in another thread) has left locked.
Blocked(t) ==
    \/ /\ "g_mutex" \in locked
       /\ pc[t] \in {"check", "esim", "remove", "version", "jpWait", "queries", "tune",
                     "finish", "ati"}
    \/ "g_madpt_wait_mutex" \in locked /\ pc[t] \in {"wait", "madptWait"}

\* In a calm system with a retry thread, a failed download that has asked for a
\* retry is followed by another attempt, unless the resets are used up.  Waits may
\* time out: a thread that got as far as a failed download does not hang, and without
\* packages no other one can have left the retry thread hanging.
RetryFollows ==
    (Calm /\ scenario.packages = 0 /\ "retry" \in scenario.threads /\ file.need = 1)
        ~> \/ file.hw > HwResetTH
           \/ \E t \in Threads : pc[t] = "start"

\* A calm system comes to rest: failed updates, resets, restarts for the test profile
\* and for the JP FCC configuration do not go on for ever, and every thread ends its
\* attempts, but for one that hangs at a mutex that a cond_wait has left locked.
Settles == Calm => <>[](\A t \in Threads : pc[t] = "idle" \/ Blocked(t))

===============================================================================
