------------------------------ MODULE EfsRecovery ------------------------------
(***************************************************************************)
(* The serial number and the IMEI of a USB module: how pwl_fwupdate keeps  *)
(* a backup of them with pwl_pref and gives them back to a module whose    *)
(* EFS has been corrupted.                                                 *)
(*                                                                         *)
(* At every start main of pwl_fwupdate reads both from the ATI answer.  If *)
(* both are there it has pwl_pref write the backup anew.  If one is        *)
(* missing it loads the backup, and with a whole one start_update_process  *)
(* runs in recovery mode: a recovery image is flashed, pwl_madpt restarts, *)
(* SN and IMEI are written to the module, and the services restart.        *)
(*                                                                         *)
(* Every query goes through post_message_queue_action, whose answer is     *)
(* known only by a signal on g_cond and by the status of the last answer   *)
(* with its id.  g_cond is shared with the other threads of pwl_fwupdate.  *)
(*                                                                         *)
(* There is one module: SN and IMEI are its own or missing, TRUE or FALSE. *)
(* Whatever goes wrong costs one of MaxFaults faults.                      *)
(***************************************************************************)
EXTENDS Naturals, Sequences

CONSTANTS
    RetryTH,      \* FW_UPDATE_RETRY_TH
    MaxTries,     \* bound: tries that the uninitialised retry leaves (code: any number)
    MaxFaults     \* bound: faults

ASSUME ConstantsAssumption ==
    /\ {RetryTH, MaxFaults} \subseteq Nat
    /\ MaxTries \in Nat \ {0}

VARIABLES
    pc,                \* where main is
    action,            \* the action that post_message_queue_action is working on
    tries,             \* the rounds its loop has left
    signalled,         \* its wait has ended with a signal
    g_ati_info,        \* whether it shows SN and IMEI, and what it shows
    g_sn, g_imei,
    status,            \* g_pwl_cid_map
    efs_recovery_mode,
    inbox,             \* answers for pwl_fwupdate
    madpt,             \* requests for pwl_madpt
    madpt_up,          \* FALSE while it restarts
    pref,              \* requests for pwl_pref
    pref_pc,           \* "write": the backup is truncated and not yet written
    backup,            \* SN_IMEI_INFO_RECORD: whether it has a line, and the line
    retry_count,       \* Fw_Update_Retry_Count on disk
    zip,               \* the update package is there
    module,            \* what the module has
    faults,            \* counter of the bound
    kept               \* history: a whole backup was written, and no failure of a
                       \* write has emptied the file since

memory == <<action, tries, signalled, g_ati_info, g_sn, g_imei, status, efs_recovery_mode>>
disk   == <<backup, retry_count, zip, kept>>
prefs  == <<pref, pref_pc>>
madpts == <<madpt, madpt_up>>
vars == <<pc, memory, inbox, madpts, prefs, disk, module, faults>>

Pair  == [sn : BOOLEAN, imei : BOOLEAN]
Whole == [sn |-> TRUE, imei |-> TRUE]
None  == [sn |-> FALSE, imei |-> FALSE]

\* The text of an ATI answer: one without SN and IMEI lines is as good as none.
Ati     == [known : BOOLEAN, sn : BOOLEAN, imei : BOOLEAN]
Unknown == [known |-> FALSE, sn |-> FALSE, imei |-> FALSE]
Text(pair) == [known |-> TRUE, sn |-> pair.sn, imei |-> pair.imei]

NoBackup    == [there |-> FALSE, line |-> None]
WholeBackup == [there |-> TRUE, line |-> Whole]

Restores == {"RESTORE_SN", "RESTORE_IMEI"}
Backups  == {"BACKUP_SN_IMEI", "GET_BACKUP_SN_IMEI"}
Actions  == {"GET_ATI"} \cup Backups \cup Restores
Labels   == {"boot", "enter", "send", "lock", "wait", "look", "update", "download",
             "madpt", "restart", "idle"}

Request(cid, content) == [cid |-> cid, content |-> content]
Answer(cid, st, response) == [cid |-> cid, status |-> st, response |-> response]
Restart == Request("MADPT_RESTART", None)

Fault  == faults < MaxFaults /\ faults' = faults + 1
NoFault == UNCHANGED faults

\* A first start with a module that has both, or a later one.
Init ==
    /\ pc = "boot"
    /\ action = "GET_ATI"
    /\ tries = 0
    /\ signalled = FALSE
    /\ g_ati_info = Unknown
    /\ g_sn = FALSE
    /\ g_imei = FALSE
    /\ status = [c \in Actions |-> "none"]
    /\ efs_recovery_mode = FALSE
    /\ inbox = <<>>
    /\ madpt = <<>>
    /\ madpt_up = FALSE
    /\ pref = <<>>
    /\ pref_pc = "idle"
    /\ backup \in {NoBackup, WholeBackup}
    /\ retry_count = 0
    /\ zip \in BOOLEAN
    /\ module \in IF backup.there THEN Pair ELSE {Whole}
    /\ faults = 0
    /\ kept = backup.there

-------------------------------------------------------------------------------
(* post_message_queue_action, by main.                                      *)

\* The call.
Post(a) == action' = a /\ pc' = "enter"

\* retry is not initialised: the loop runs any number of times, or not at all.
EnterLoop ==
    /\ pc = "enter"
    /\ \/ tries' \in 1..MaxTries /\ NoFault
       \/ tries' = 0 /\ Fault
    /\ signalled' = FALSE
    /\ pc' = IF tries' = 0 THEN "look" ELSE "send"
    /\ UNCHANGED <<action, g_ati_info, g_sn, g_imei, status, efs_recovery_mode, inbox,
                   madpts, prefs, disk, module>>

\* One request, with what g_sn and g_imei hold now.
SendRequest ==
    /\ pc = "send"
    /\ pc' = "lock"
    /\ signalled' = FALSE
    /\ IF action \in Backups
       THEN /\ pref' = Append(pref, Request(action, [sn |-> g_sn, imei |-> g_imei]))
            /\ UNCHANGED madpt
       ELSE /\ madpt' = Append(madpt, Request(action, [sn |-> g_sn, imei |-> g_imei]))
            /\ UNCHANGED pref
    /\ UNCHANGED <<action, tries, g_ati_info, g_sn, g_imei, status, efs_recovery_mode,
                   inbox, madpt_up, pref_pc, disk, module, faults>>

StartWait ==
    /\ pc = "lock"
    /\ pc' = "wait"
    /\ UNCHANGED <<memory, inbox, madpts, prefs, disk, module, faults>>

\* Nothing is under way that could still signal.
Quiet == /\ inbox = <<>>
         /\ madpt = <<>> /\ madpt_up
         /\ pref = <<>> /\ pref_pc = "idle"

\* PWL_CMD_TIMEOUT_SEC have passed: before a slow answer, or because the request or
\* the signal was lost.
TimeOut ==
    /\ pc = "wait"
    /\ \/ Quiet /\ NoFault
       \/ ~Quiet /\ Fault
    /\ pc' = "look"
    /\ UNCHANGED <<memory, inbox, madpts, prefs, disk, module>>

\* An answer to a query of another thread ends main's wait.
OtherSignal ==
    /\ pc = "wait"
    /\ Fault
    /\ pc' = "look"
    /\ signalled' = TRUE
    /\ UNCHANGED <<action, tries, g_ati_info, g_sn, g_imei, status, efs_recovery_mode,
                   inbox, madpts, prefs, disk, module>>

\* The end of a round: RET_OK unless the wait timed out or the last answer with
\* this id had the status PWL_CID_STATUS_ERROR; PWL_CID_STATUS_TIMEOUT will do.
RoundOk == tries > 0 /\ signalled /\ status[action] # "error"

EagerRoundFails ==             \* mutated form: one round too many
    /\ pc = "look"
    /\ ~RoundOk
    /\ tries' = tries - 1
    /\ pc' = "send"
    /\ UNCHANGED <<action, signalled, g_ati_info, g_sn, g_imei, status, efs_recovery_mode,
                   inbox, madpts, prefs, disk, module, faults>>

RoundFails ==
    /\ pc = "look"
    /\ ~RoundOk
    /\ tries > 1
    /\ tries' = tries - 1
    /\ pc' = "send"
    /\ UNCHANGED <<action, signalled, g_ati_info, g_sn, g_imei, status, efs_recovery_mode,
                   inbox, madpts, prefs, disk, module, faults>>

\* The loop is over, with RET_OK or RET_FAILED.
Returned == pc = "look" /\ (RoundOk \/ tries <= 1)

-------------------------------------------------------------------------------
(* main.                                                                    *)

\* cond_wait on g_madpt_wait_cond: pwl_madpt has reported its start, or the time is
\* over.  The second form is a fault: a late or an early report.
MadptReported ==
    \/ madpt_up /\ madpt = <<>> /\ NoFault
    \/ ~(madpt_up /\ madpt = <<>>) /\ Fault

\* The EFS check starts with the ATI query.
StartCheck ==
    /\ pc = "boot"
    /\ MadptReported
    /\ Post("GET_ATI")
    /\ UNCHANGED <<tries, signalled, g_ati_info, g_sn, g_imei, status, efs_recovery_mode,
                   inbox, madpts, prefs, disk, module>>

\* A retry of an update is wanted: no check.
SkipCheck ==
    /\ pc = "boot"
    /\ Fault
    /\ pc' = "idle"
    /\ UNCHANGED <<memory, inbox, madpts, prefs, disk, module>>

\* get_sn_and_imei: what an ATI answer leaves of g_sn or g_imei.  An empty line clears
\* it; without its line, or without an answer, it stays as it is.
ReadLine(shown, old) == IF shown THEN {TRUE} ELSE {old, old /\ ~g_ati_info.known}

\* main does not look at the result.
PartialGotAti ==               \* mutated form: one of the two is enough for a backup
    \E sn \in ReadLine(g_ati_info.sn, g_sn), imei \in ReadLine(g_ati_info.imei, g_imei) :
        /\ g_sn' = sn
        /\ g_imei' = imei
        /\ Post(IF sn \/ imei THEN "BACKUP_SN_IMEI" ELSE "GET_BACKUP_SN_IMEI")

GotAti ==
    \E sn \in ReadLine(g_ati_info.sn, g_sn), imei \in ReadLine(g_ati_info.imei, g_imei) :
        /\ g_sn' = sn
        /\ g_imei' = imei
        /\ Post(IF sn /\ imei THEN "BACKUP_SN_IMEI" ELSE "GET_BACKUP_SN_IMEI")

AtiReturned ==
    /\ Returned
    /\ action = "GET_ATI"
    /\ \/ RoundOk /\ GotAti
       \/ ~RoundOk /\ pc' = "update" /\ UNCHANGED <<action, g_sn, g_imei>>
    /\ UNCHANGED <<tries, signalled, g_ati_info, status, efs_recovery_mode, inbox, madpts,
                   prefs, disk, module, faults>>

\* The results of both backup actions are not looked at; what counts is what the
\* globals hold now.
BackupReturned ==
    /\ Returned
    /\ action \in Backups
    /\ efs_recovery_mode' = (action = "GET_BACKUP_SN_IMEI" /\ g_sn /\ g_imei)
    /\ pc' = "update"
    /\ UNCHANGED <<action, tries, signalled, g_ati_info, g_sn, g_imei, status, inbox,
                   madpts, prefs, disk, module, faults>>

\* Without a version, a package or its files main goes to its loop, and so it does
\* after a normal update (UsbUpdate) and when the thresholds refuse the recovery.
NoRecovery ==
    /\ pc = "update"
    /\ \/ ~(zip /\ efs_recovery_mode /\ retry_count <= RetryTH) /\ NoFault
       \/ zip /\ efs_recovery_mode /\ retry_count <= RetryTH /\ Fault
    /\ pc' = "idle"
    /\ UNCHANGED <<memory, inbox, madpts, prefs, disk, module>>

StartRecovery ==
    /\ pc = "update"
    /\ zip
    /\ efs_recovery_mode
    /\ retry_count <= RetryTH
    /\ pc' = "download"
    /\ UNCHANGED <<memory, inbox, madpts, prefs, disk, module, faults>>

\* setup_download_parameter fails: no recovery image, or no key.
SetupFails ==
    /\ pc = "download"
    /\ Fault
    /\ retry_count' = retry_count + 1
    /\ pc' = "restart"
    /\ UNCHANGED <<memory, inbox, madpts, prefs, backup, zip, kept, module>>

\* What flashing the recovery image may leave of SN and IMEI.
AfterFlash == {module, None}

DownloadFails ==
    /\ pc = "download"
    /\ Fault
    /\ module' \in AfterFlash
    /\ pc' = "restart"
    /\ UNCHANGED <<memory, inbox, madpts, prefs, disk>>

\* The image is flashed, the module is back and pwl_madpt is told to restart.
Download ==
    /\ pc = "download"
    /\ module' \in AfterFlash
    /\ madpt' = Append(madpt, Restart)
    /\ pc' = "madpt"
    /\ UNCHANGED <<memory, inbox, madpt_up, prefs, disk, faults>>

StartRestore ==
    /\ pc = "madpt"
    /\ MadptReported
    /\ Post("RESTORE_SN")
    /\ UNCHANGED <<tries, signalled, g_ati_info, g_sn, g_imei, status, efs_recovery_mode,
                   inbox, madpts, prefs, disk, module>>

\* Failures to restore are logged only; the next start finds out.
ForgetfulRestoreReturned ==    \* mutated form: the IMEI is not restored
    /\ Returned
    /\ action \in Restores
    /\ pc' = "restart"
    /\ UNCHANGED <<memory, inbox, madpts, prefs, disk, module, faults>>

RestoreReturned ==
    /\ Returned
    /\ action \in Restores
    /\ \/ action = "RESTORE_SN" /\ Post("RESTORE_IMEI")
       \/ action = "RESTORE_IMEI" /\ pc' = "restart" /\ UNCHANGED action
    /\ UNCHANGED <<tries, signalled, g_ati_info, g_sn, g_imei, status, efs_recovery_mode,
                   inbox, madpts, prefs, disk, module, faults>>

\* A new process: its memory is fresh and it discards what waits in its queue.
Reborn ==
    /\ pc' = "boot"
    /\ action' = "GET_ATI"
    /\ tries' = 0
    /\ signalled' = FALSE
    /\ g_ati_info' = Unknown
    /\ g_sn' = FALSE
    /\ g_imei' = FALSE
    /\ status' = [c \in Actions |-> "none"]
    /\ efs_recovery_mode' = FALSE
    /\ inbox' = <<>>

\* restart_madpt_and_fwupdate_service.
RestartServices ==
    /\ pc = "restart"
    /\ madpt' = Append(madpt, Restart)
    /\ Reborn
    /\ UNCHANGED <<madpt_up, prefs, disk, module, faults>>

-------------------------------------------------------------------------------
(* The message thread of pwl_fwupdate.                                      *)

Store(m) ==
    /\ status' = [status EXCEPT ![m.cid] = m.status]
    /\ g_ati_info' = IF m.cid = "GET_ATI" /\ m.status = "ok" THEN m.response ELSE g_ati_info
    /\ IF m.cid = "GET_BACKUP_SN_IMEI" /\ m.status = "ok"
       THEN g_sn' = m.response.sn /\ g_imei' = m.response.imei
       ELSE UNCHANGED <<g_sn, g_imei>>

\* pthread_cond_signal: main may be waiting, or not waiting yet, or another thread
\* that waits is woken in its place.
TakeAnswer ==
    /\ inbox # <<>>
    /\ inbox' = Tail(inbox)
    /\ Store(Head(inbox))
    /\ \/ /\ pc = "wait"
          /\ pc' = "look"
          /\ signalled' = TRUE
          /\ NoFault
       \/ /\ pc \in {"wait", "lock"}
          /\ Fault
          /\ UNCHANGED <<pc, signalled>>
       \/ /\ pc \notin {"wait", "lock"}
          /\ NoFault
          /\ UNCHANGED <<pc, signalled>>
    /\ UNCHANGED <<action, tries, efs_recovery_mode, madpts, prefs, disk, module>>

-------------------------------------------------------------------------------
(* pwl_madpt and pwl_pref.                                                  *)

Written(m) ==
    CASE m.cid = "RESTORE_SN"   -> [module EXCEPT !.sn = m.content.sn]
      [] m.cid = "RESTORE_IMEI" -> [module EXCEPT !.imei = m.content.imei]
      [] OTHER                  -> module

Statuses == {"ok", "error", "timeout"}

\* An AT command is answered, or it is not: a command without an answer in time ends
\* with the status "timeout", a failure of the channel with "error", and a module that
\* refuses a command with "ok" and a text that says so.
MadptAnswers ==
    /\ madpt_up
    /\ madpt # <<>>
    /\ Head(madpt).cid # "MADPT_RESTART"
    /\ madpt' = Tail(madpt)
    /\ \/ /\ module' = Written(Head(madpt))
          /\ inbox' = Append(inbox, Answer(Head(madpt).cid, "ok", Text(module)))
          /\ NoFault
       \/ /\ module' \in {module, Written(Head(madpt))}
          /\ \E st \in Statuses :
                inbox' = Append(inbox, Answer(Head(madpt).cid, st, Unknown))
          /\ Fault
    /\ UNCHANGED <<pc, memory, madpt_up, prefs, disk>>

\* MADPT_RESTART ends the process, systemd starts it and it discards its queue.
MadptExits ==
    /\ madpt_up
    /\ madpt # <<>>
    /\ Head(madpt).cid = "MADPT_RESTART"
    /\ madpt_up' = FALSE
    /\ UNCHANGED <<pc, memory, inbox, madpt, prefs, disk, module, faults>>

MadptStarts ==
    /\ ~madpt_up
    /\ madpt_up' = TRUE
    /\ madpt' = <<>>
    /\ UNCHANGED <<pc, memory, inbox, prefs, disk, module, faults>>

\* handle_sn_imei_backup_file, BACKUP_FILE_SAVE: fopen truncates, then the line is
\* written.
PrefTruncates ==
    /\ pref # <<>>
    /\ pref_pc = "idle"
    /\ Head(pref).cid = "BACKUP_SN_IMEI"
    /\ backup' = NoBackup
    /\ pref_pc' = "write"
    /\ UNCHANGED <<pc, memory, inbox, madpts, pref, retry_count, zip, kept, module, faults>>

\* The write may fail, which fprintf reports and fclose does not.
PrefWrites ==
    /\ pref_pc = "write"
    /\ pref_pc' = "idle"
    /\ pref' = Tail(pref)
    /\ \/ /\ backup' = [there |-> TRUE, line |-> Head(pref).content]
          /\ kept' = (kept \/ Head(pref).content = Whole)
          /\ inbox' = Append(inbox, Answer("BACKUP_SN_IMEI", "ok", Unknown))
          /\ NoFault
       \/ /\ kept' = FALSE
          /\ \E st \in {"ok", "error"} :
                inbox' = Append(inbox, Answer("BACKUP_SN_IMEI", st, Unknown))
          /\ UNCHANGED backup
          /\ Fault
    /\ UNCHANGED <<pc, memory, madpts, retry_count, zip, module>>

\* BACKUP_FILE_LOAD: a missing or an empty file is an error.
PrefLoads ==
    /\ pref # <<>>
    /\ pref_pc = "idle"
    /\ Head(pref).cid = "GET_BACKUP_SN_IMEI"
    /\ pref' = Tail(pref)
    /\ inbox' = Append(inbox, Answer("GET_BACKUP_SN_IMEI",
                                     IF backup.there THEN "ok" ELSE "error",
                                     Text(backup.line)))
    /\ UNCHANGED <<pc, memory, madpts, pref_pc, disk, module, faults>>

-------------------------------------------------------------------------------
(* Crashes, and the EFS.                                                    *)

FwupdateCrash ==
    /\ Fault
    /\ Reborn
    /\ UNCHANGED <<madpts, prefs, disk, module>>

MadptCrash ==
    /\ Fault
    /\ madpt_up' = FALSE
    /\ UNCHANGED <<pc, memory, inbox, madpt, prefs, disk, module>>

\* pwl_pref, too, discards its queue when it starts.
PrefStops ==
    /\ pref' = <<>>
    /\ pref_pc' = "idle"
    /\ kept' = (kept /\ pref_pc = "idle")

PrefCrash ==
    /\ Fault
    /\ PrefStops
    /\ UNCHANGED <<pc, memory, inbox, madpts, backup, retry_count, zip, module>>

HostReboot ==
    /\ Fault
    /\ Reborn
    /\ PrefStops
    /\ madpt' = <<>>
    /\ madpt_up' = FALSE
    /\ zip' \in BOOLEAN
    /\ UNCHANGED <<backup, retry_count, module>>

\* The module loses its SN, its IMEI or both.
EfsCorrupted ==
    /\ Fault
    /\ module' \in {[module EXCEPT !.sn = FALSE], [module EXCEPT !.imei = FALSE], None}
    /\ UNCHANGED <<pc, memory, inbox, madpts, prefs, disk>>

-------------------------------------------------------------------------------
MainStep ==
    \/ EnterLoop
    \/ SendRequest
    \/ StartWait
    \/ TimeOut
    \/ OtherSignal
    \/ RoundFails
    \/ StartCheck
    \/ SkipCheck
    \/ AtiReturned
    \/ BackupReturned
    \/ NoRecovery
    \/ StartRecovery
    \/ SetupFails
    \/ DownloadFails
    \/ Download
    \/ StartRestore
    \/ RestoreReturned
    \/ RestartServices

MadptStep == MadptAnswers \/ MadptExits \/ MadptStarts
PrefStep  == PrefTruncates \/ PrefWrites \/ PrefLoads
Crashes   == FwupdateCrash \/ MadptCrash \/ PrefCrash \/ HostReboot

Next == MainStep \/ TakeAnswer \/ MadptStep \/ PrefStep \/ Crashes \/ EfsCorrupted

Spec == Init /\ [][Next]_vars

\* Every thread and service that can go on does.
FairSpec ==
    /\ Spec
    /\ WF_vars(MainStep)
    /\ WF_vars(TakeAnswer)
    /\ WF_vars(MadptStep)
    /\ WF_vars(PrefStep)

-------------------------------------------------------------------------------
(* Properties.                                                              *)

Requests(cids) == [cid : cids, content : Pair]

\* The shape of the state.
TypeOK ==
    /\ pc \in Labels
    /\ action \in Actions
    /\ tries \in 0..MaxTries
    /\ signalled \in BOOLEAN
    /\ g_ati_info \in Ati
    /\ {g_sn, g_imei, efs_recovery_mode} \subseteq BOOLEAN
    /\ status \in [Actions -> Statuses \cup {"none"}]
    /\ inbox \in Seq([cid : Actions, status : Statuses, response : Ati])
    /\ madpt \in Seq(Requests((Actions \ Backups) \cup {"MADPT_RESTART"}))
    /\ pref \in Seq(Requests(Backups))
    /\ pref_pc \in {"idle", "write"}
    /\ pref_pc = "write" => pref # <<>>
    /\ backup \in [there : BOOLEAN, line : Pair]
    /\ retry_count \in 0..(RetryTH + 1)
    /\ module \in Pair
    /\ {madpt_up, zip, kept} \subseteq BOOLEAN
    /\ faults \in 0..MaxFaults

\* Once a whole backup has been written it stays whole: whatever is read of a corrupt
\* module, answered late or lost, the file is only rewritten with both SN and IMEI.
\* Only a crash or a failure in the middle of the rewriting takes it.
IdentityKept == kept /\ pref_pc = "idle" => backup = WholeBackup

\* A recovery image, which may cost a module its data, is flashed only when SN or IMEI
\* is missing on it; main means to give the check up when it "Can't get ati info"
\* (pwl_fwupdate.c:5440).  It does not hold: a query that ended with the status
\* "timeout" or with another thread's signal counts as answered, and SN and IMEI that
\* were never read count as missing.
RecoveryOnlyWhenLost == pc = "download" => module # Whole

\* A start of pwl_fwupdate that nothing disturbs gives a module without SN or IMEI
\* both back, when the backup and the package are there.  The answer to a query for the
\* backup that its predecessor sent is such a disturbance: it fills g_sn and g_imei
\* before the ATI answer, and what that does not show counts as there.
IdentityReturns ==
    (/\ pc = "boot" /\ Quiet /\ faults = MaxFaults
     /\ ~g_sn /\ ~g_imei
     /\ zip /\ retry_count <= RetryTH
     /\ backup = WholeBackup)
        ~> module = Whole
===============================================================================
